---- MODULE Spec2Model ----
(***************************************************************************)
(* A model of the ground-map loader of rustarok (src/src/gnd.rs), and of   *)
(* three pieces of its game loop: the update of the blade-dash status     *)
(* (assa_blade_dash.rs), the update of the lightning manifestation         *)
(* (lightning.rs) and the two frame caches of the OpenGL render system     *)
(* (opengl_render_sys.rs).  Each is a specification of its own over the    *)
(* variables below; the variables of the others stay as they start.        *)
(*                                                                         *)
(* Gnd::load is modelled as a sequential program: pc is its position, the  *)
(* other variables are its locals and the fields of the Gnd it builds.     *)
(* The byte buffer is the record buf, already split into the fields the    *)
(* BinaryReader hands out; heights are file units (integers), names are    *)
(* fixed-width strings given as tuples of character codes.  A Rust panic   *)
(* (panic!, a failed bounds check, a remainder by zero) is pc = "panic"    *)
(* with the reason in err; the function then returns nothing.              *)
(***************************************************************************)
EXTENDS Integers, Sequences, FiniteSets, TLC

VARIABLES
    buf,                \* the input file, as the fields BinaryReader yields
    water_level,        \* argument of Gnd::load
    water_height,       \* argument of Gnd::load
    pc,                 \* position inside Gnd::load
    err,                \* why the load panicked ("" while it has not)
    slot,               \* loop counter i of load_textures
    texture_index_map,  \* BTreeMap<String, usize> of load_textures
    texture_indices,    \* Vec<usize>
    texture_names,      \* Vec<String>
    lightmaps,          \* LightmapData (count, per_cell)
    tiles,              \* Vec<Tile>
    surfaces,           \* Vec<Surface>
    normals,            \* Vec<[Vector3; 4]>, symbolically (see smooth_normal)
    cell,               \* x + y*width of the mesh loop
    mesh,               \* Vec<[MeshVertex; 6]>, one record per quad
    water,              \* Vec<[WaterVertex; 6]>, one record per quad
    tiles_color_image,  \* Vec<u8>
    shadowmap_image,    \* Vec<u8>
    lightmap_image,     \* Vec<u8>
    run,                \* which call of Gnd::load on this input this is
    prev,               \* what the previous call on this input returned
    sys_vars,           \* SystemVariables: time, area_attacks
    status,             \* the AssaBladeDashStatus and what update returned
    manifest,           \* the LightningManifest
    updater,            \* LazyUpdate: the components inserted and removed
    render_sys,         \* OpenGlRenderSystem: text_cache, str_effect_cache
    video               \* the textures, effect frames and draws of the frames

vars == <<buf, water_level, water_height, pc, err, slot, texture_index_map,
          texture_indices, texture_names, lightmaps, tiles, surfaces, normals,
          cell, mesh, water, tiles_color_image, shadowmap_image,
          lightmap_image, run, prev, sys_vars, status, manifest, updater,
          render_sys, video>>

\* The variables of Gnd::load and of its callers.
gndvars == <<buf, water_level, water_height, pc, err, slot, texture_index_map,
             texture_indices, texture_names, lightmaps, tiles, surfaces,
             normals, cell, mesh, water, tiles_color_image, shadowmap_image,
             lightmap_image, run, prev>>

\* The variables of the game loop, which Gnd::load never touches.
game == <<sys_vars, status, manifest, updater, render_sys, video>>

\* The input and the arguments never change during a load.
input == <<buf, water_level, water_height>>

\* Everything load_textures writes.
texvars == <<slot, texture_index_map, texture_indices, texture_names>>

\* Everything the mesh loop writes.
meshvars == <<cell, mesh, water>>

\* The three derived images.
imgvars == <<tiles_color_image, shadowmap_image, lightmap_image>>

----------------------------------------------------------------------------
(* Bounds of the model.                                                    *)

\* Raw texture slots in the texture table.
MaxSlots == 3

\* Small grids: width in 0..MaxW, height in 0..MaxH.
MaxW == 2
MaxH == 2

\* The one large grid, big enough for the mesh to hold 100 quads.
BigW == 6
BigH == 7

\* Lightmap entries in the lightmap table: 0..MaxLightmaps.
MaxLightmaps == 2

\* Calls of Gnd::load on the same input (for the round-trip claim).
MaxRuns == 2

----------------------------------------------------------------------------
(* Helpers.                                                                *)

Min(a, b) == IF a < b THEN a ELSE b

\* Rust's Vec indexing v[i] with a usize i: in bounds or a panic.
InBounds(v, i) == i >= 0 /\ i < Len(v)

\* v[i] with Rust's 0-based index.
At(v, i) == v[i + 1]

\* Lexicographic order of two strings of the same width: Ord for String,
\* the key order of a BTreeMap<String, _>.
LexLess(a, b) ==
    \E k \in 1..Min(Len(a), Len(b)) :
        /\ a[k] < b[k]
        /\ \A j \in 1..(k - 1) : a[j] = b[j]

\* The least key of a non-empty key set.
LeastName(S) == CHOOSE n \in S : \A m \in S \ {n} : LexLess(n, m)

\* The keys of a BTreeMap in iteration order (ascending), as a sequence.
RECURSIVE InKeyOrder(_)
InKeyOrder(S) ==
    IF S = {} THEN <<>>
    ELSE LET n == LeastName(S) IN <<n>> \o InKeyOrder(S \ {n})

Abs(n) == IF n < 0 THEN 0 - n ELSE n

RECURSIVE GCD(_, _)
GCD(a, b) == IF b = 0 THEN a ELSE GCD(b, a % b)

\* An f32 that the model computes exactly: the fraction n/d, d > 0, in
\* lowest terms.
Rat(n, d) == LET g == GCD(Abs(n), d) IN <<n \div g, d \div g>>

RInt(n) == <<n, 1>>
RAdd(p, q) == Rat(p[1] * q[2] + q[1] * p[2], p[2] * q[2])
RSub(p, q) == Rat(p[1] * q[2] - q[1] * p[2], p[2] * q[2])
RMul(p, q) == Rat(p[1] * q[1], p[2] * q[2])
\* p / q for q > 0
RDiv(p, q) == Rat(p[1] * q[2], p[2] * q[1])
RLeq(p, q) == p[1] * q[2] <= q[1] * p[2]
\* p < q for two rationals.
RLess(p, q) == RLeq(p, q) /\ p # q

\* Byte k (0 the lowest) of a u32.
U32Byte(n, k) == (n \div (256 ^ k)) % 256

\* Column k (0..7) of the schoolbook product of two u32, before carries.
MulColumn(a, b, k) ==
    LET Term(i) == IF k - i \in 0..3 THEN U32Byte(a, i) * U32Byte(b, k - i) ELSE 0
    IN Term(0) + Term(1) + Term(2) + Term(3)

\* The bytes k..7 of the product, given the carry into byte k.
RECURSIVE MulBytes(_, _, _, _)
MulBytes(a, b, k, carry) ==
    IF k > 7 THEN <<>>
    ELSE LET t == MulColumn(a, b, k) + carry
         IN <<t % 256>> \o MulBytes(a, b, k + 1, t \div 256)

\* width * height on u32: the product modulo 2^32, and whether the true
\* product is 2^32 or more (a debug build panics there, a release build
\* wraps).
MulU32(a, b) ==
    IF a < 2 ^ 15 /\ b < 2 ^ 15
    THEN [wrapped |-> a * b, overflow |-> FALSE]
    ELSE LET d == MulBytes(a, b, 0, 0)
         IN [wrapped  |-> d[1] + 256 * d[2] + (256 ^ 2) * d[3] + (256 ^ 3) * d[4],
             overflow |-> \E k \in 5..8 : d[k] # 0]

----------------------------------------------------------------------------
(* The inputs the model draws from.                                        *)

\* Texture names of one width: "aa", "ab", "ba" as character codes.
NamePool == {<<1, 1>>, <<1, 2>>, <<2, 1>>}

\* The texture table of the file: up to MaxSlots names, repeats allowed.
NameSeqs == UNION {[1..n -> NamePool] : n \in 0..MaxSlots}

\* "ba", "ab", "ba": first seen in an order that is not the sorted one.
DefNames == << <<2, 1>>, <<1, 2>>, <<2, 1>> >>

Headers == {"GRGN", "XXXX"}

\* Corner heights in file units (a fifth of a world unit).
FileHeights == {0 - 10, 0}

\* Tiles in the tile table of the file.
MaxTiles == 2

\* Face references of a surface record: below the sentinel, the sentinel,
\* valid ones, and the first one past the tile table.
TileRefs == {0 - 2, 0 - 1, 0, MaxTiles - 1, MaxTiles}

\* The raw UV corners u1..u4 and v1..v4 a tile record of the file holds,
\* by the record's uv field: the corners 0 span the texture, the others
\* lie inside it but for two of them, which lie outside [0, 1].
RawU(t) ==
    IF t = 0 THEN <<RInt(0), RInt(1), RInt(0), RInt(1)>>
    ELSE <<Rat(1, 4), Rat(3, 4), Rat(5, 4), Rat(0 - 1, 4)>>

RawV(t) ==
    IF t = 0 THEN <<RInt(0), RInt(0), RInt(1), RInt(1)>>
    ELSE <<Rat(1, 2), RInt(1), Rat(0 - 1, 2), Rat(3, 2)>>

\* The record of tile t in the file: UV corners (RawU, RawV of uv),
\* texture slot, lightmap index, colour.
RawTile(t, lm) ==
    [uv    |-> t,
     slot  |-> t,
     light |-> IF lm = 0 THEN 0 ELSE t % lm,
     color |-> <<16 * (t + 1), 32, 48, 255>>]

TileTable(lm) == [k \in 1..MaxTiles |-> RawTile(k - 1, lm)]

RawSurface(hs, up, front, right) ==
    [height |-> hs, tile_up |-> up, tile_front |-> front, tile_right |-> right]

AllHigh == [k \in 1..4 |-> 0]
AllLow == [k \in 1..4 |-> 0 - 10]

\* Cells every other cell of a grid is a copy of.
FullCell == RawSurface(AllHigh, 0, MaxTiles - 1, 0)
TopCell == RawSurface(AllHigh, 0, 0 - 1, 0 - 1)
BareCell == RawSurface(AllLow, 0 - 1, 0 - 1, 0 - 1)
SunkCell == RawSurface(AllLow, 0, 0 - 1, 0 - 1)

BaseCells == {FullCell, TopCell, BareCell, SunkCell}

\* Corner heights of the free cell: none, one or all of them high.
HeightSets ==
    {AllLow, AllHigh} \cup
    {[k \in 1..4 |-> IF k = c THEN 0 ELSE 0 - 10] : c \in 1..4}

\* The one cell of a grid that varies freely: every combination of face
\* references over high ground, and every height set over a few faces.
SpecialCells ==
    {RawSurface(hs, up, front, right) :
        hs \in {AllHigh}, up \in TileRefs, front \in TileRefs,
        right \in TileRefs}
    \cup
    {RawSurface(hs, up, fr, fr) :
        hs \in HeightSets, up \in {0 - 1, 0}, fr \in {0 - 1, 0}}

\* The cells tried at every position of the large grid.
BigSpecialCells ==
    {FullCell, BareCell, SunkCell,
     RawSurface(AllHigh, 0 - 2, 0 - 2, 0 - 2),
     RawSurface(AllLow, 0 - 1, 0, MaxTiles - 1),
     RawSurface(AllHigh, 0, MaxTiles, 0 - 1)}

\* A grid of w*h records, row-major, all base but the one at index p.
Grid(w, h, base, p, special) ==
    [k \in 1..(w * h) |-> IF k - 1 = p THEN special ELSE base]

\* Water arguments (water_level, water_height): the threshold
\* water_level - water_height lies between, below and above the heights.
MidWater == <<0, 1>>
WaterArgs == {MidWater, <<0 - 4, 1>>, <<5, 1>>}

\* Water arguments whose threshold is the high height itself.
EdgeWater == <<1, 1>>

File(hd, w, h, names, lm, srf) ==
    [header      |-> hd,
     width       |-> w,
     height      |-> h,
     names       |-> names,
     lm_count    |-> lm,
     per_cell_x  |-> 8,
     per_cell_y  |-> 8,
     size_cell   |-> 1,
     tiles       |-> TileTable(lm),
     surfaces    |-> srf]

\* A call of Gnd::load: the file and the two water arguments.
Call(file, wa) == [file |-> file, water_level |-> wa[1], water_height |-> wa[2]]

----------------------------------------------------------------------------
(* The state before Gnd::load runs.                                        *)

NoImage == <<>>

\* The locals of a call that has not started.
Fresh ==
    /\ pc = "header"
    /\ err = ""
    /\ slot = 0
    /\ texture_index_map = [n \in {} |-> 0]
    /\ texture_indices = <<>>
    /\ texture_names = <<>>
    /\ lightmaps = [per_cell |-> 0, count |-> 0, len |-> 0]
    /\ tiles = <<>>
    /\ surfaces = <<>>
    /\ normals = <<>>
    /\ cell = 0
    /\ mesh = <<>>
    /\ water = <<>>
    /\ tiles_color_image = NoImage
    /\ shadowmap_image = NoImage
    /\ lightmap_image = NoImage

\* No game loop runs.
NoGame ==
    /\ sys_vars = [time |-> 0, area_attacks |-> <<>>]
    /\ status = "none"
    /\ manifest = "none"
    /\ updater = "none"
    /\ render_sys = "none"
    /\ video = "none"

\* The call c is about to start.
Start(c) ==
    /\ NoGame
    /\ buf = c.file
    /\ water_level = c.water_level
    /\ water_height = c.water_height
    /\ Fresh
    /\ run = 1
    /\ prev = <<>>

\* Texture tables of every shape, and both headers, over a 1x1 grid.
InitTextures ==
    \E hd \in Headers, names \in NameSeqs :
        Start(Call(File(hd, 1, 1, names, 1, <<FullCell>>), MidWater))

\* Small grids with one free cell.
InitCell ==
    \E w \in 0..MaxW, h \in 0..MaxH, base \in {FullCell, BareCell},
       special \in SpecialCells :
        \E p \in 0..(w * h - 1) :
            Start(Call(File("GRGN", w, h, DefNames, 1, Grid(w, h, base, p, special)),
                       MidWater))

\* Small uniform grids under every lightmap count and water argument.
InitLight ==
    \E w \in 0..MaxW, h \in 0..MaxH, base \in BaseCells, lm \in 0..MaxLightmaps,
       wa \in WaterArgs \cup {EdgeWater} :
        Start(Call(File("GRGN", w, h, DefNames, lm, Grid(w, h, base, 0 - 1, base)), wa))

\* The large grid, with one cell that differs.
InitBig ==
    \E lm \in {MaxLightmaps}, p \in 0..(BigW * BigH - 1),
       special \in BigSpecialCells :
        Start(Call(File("GRGN", BigW, BigH, DefNames, lm,
                        Grid(BigW, BigH, FullCell, p, special)), MidWater))

\* Headers whose width * height does not fit a u32; the file holds the
\* records a wrapped count reads.
WideSizes == {<<2 ^ 16, 2 ^ 16>>, <<2 ^ 30 + 1, 4>>, <<4, 2 ^ 30 + 1>>}

InitWide ==
    \E sz \in WideSizes, base \in {FullCell, BareCell} :
        Start(Call(File("GRGN", sz[1], sz[2], DefNames, 1,
                        [k \in 1..MulU32(sz[1], sz[2]).wrapped |-> base]),
                   MidWater))

\* A cell whose top tile is the last tile of the table, the one whose
\* light index is not 0 when the lightmap table has two entries or more.
LitCell == RawSurface(AllHigh, MaxTiles - 1, 0, 0)

\* Values of the per_cell_x field of the lightmap header: with per_cell_y
\* = 8 and size_cell = 1 an entry's layer is shorter than, equal to and
\* longer than the 64 bytes of an 8x8 block.
PerCellXs == {4, 8, 16}

\* The file with per_cell_x texels per lightmap row.
WithPerCellX(file, px) == [file EXCEPT !.per_cell_x = px]

\* The large grid of one kind of cell, but for the FullCell at index 1,
\* under every lightmap table that has an entry, one more than MaxLightmaps
\* included: three entries leave a block of the atlas image unused.
InitBigLight ==
    \E lm \in 1..(MaxLightmaps + 1), px \in PerCellXs, base \in {FullCell, LitCell} :
        Start(Call(WithPerCellX(File("GRGN", BigW, BigH, DefNames, lm,
                                     Grid(BigW, BigH, base, 1, FullCell)), px),
                   MidWater))

\* Lightmap counts whose square root rounds down (5, 6, 12) and up (7, 13).
ManyLightmaps == {5, 6, 7, 12, 13}

\* The uniform large grid under lightmap tables of several rows of blocks.
InitManyLight ==
    \E lm \in ManyLightmaps :
        Start(Call(File("GRGN", BigW, BigH, DefNames, lm,
                        Grid(BigW, BigH, FullCell, 0 - 1, FullCell)), MidWater))

Init ==
    \/ InitTextures \/ InitCell \/ InitLight \/ InitBig \/ InitWide
    \/ InitBigLight \/ InitManyLight

\* A panic: the load stops where it is and returns nothing.
Panic(why) ==
    /\ pc' = "panic"
    /\ err' = why

----------------------------------------------------------------------------
(* Gnd::load, lines 75-92: the header and the four tables.                 *)

\* A header the check passes: it checks nothing.
BadHeaderNever(header) == FALSE

\* header != "GRGN"
BadHeader(header) == header # "GRGN"

\* if header != "GRGN" { panic!(...) }
CheckHeader ==
    /\ pc = "header"
    /\ IF BadHeader(buf.header)
       THEN Panic("Invalig Gnd header")
       ELSE pc' = "textures" /\ err' = err
    /\ UNCHANGED <<game, input, texvars, lightmaps, tiles, surfaces, normals,
                   meshvars, imgvars, run, prev>>

\* or_insert(i): the loop counter in place of the number of names seen.
OrInsertSlot(map, name) ==
    IF name \in DOMAIN map THEN map
    ELSE [n \in DOMAIN map \cup {name} |-> IF n \in DOMAIN map THEN map[n] ELSE slot]

\* texture_index_map.entry(name).or_insert(current_texture_count): the map
\* after the call.
OrInsert(map, name) ==
    IF name \in DOMAIN map THEN map
    ELSE [n \in DOMAIN map \cup {name} |->
            IF n \in DOMAIN map THEN map[n] ELSE Cardinality(DOMAIN map)]

\* One iteration of the loop of load_textures.
LoadTexturesStep ==
    /\ pc = "textures"
    /\ slot < Len(buf.names)
    /\ LET name == At(buf.names, slot)
           map == OrInsert(texture_index_map, name)
       IN /\ texture_index_map' = map
          /\ texture_indices' = Append(texture_indices, map[name])
    /\ slot' = slot + 1
    /\ UNCHANGED <<game, input, pc, err, texture_names, lightmaps, tiles, surfaces,
                   normals, meshvars, imgvars, run, prev>>

Reverse(q) == [k \in 1..Len(q) |-> q[Len(q) + 1 - k]]

\* The keys in the order a HashMap iterates: it differs from call to call.
CollectNamesHashed(map) ==
    IF run = 1 THEN InKeyOrder(DOMAIN map) ELSE Reverse(InKeyOrder(DOMAIN map))

\* texture_index_map.into_iter().map(|e| e.0).collect(): the keys, in the
\* order a BTreeMap iterates, which is the order of the keys.
CollectNames(map) == InKeyOrder(DOMAIN map)

\* The end of load_textures.
LoadTexturesCollect ==
    /\ pc = "textures"
    /\ slot = Len(buf.names)
    /\ texture_names' = CollectNames(texture_index_map)
    /\ pc' = "lightmaps"
    /\ UNCHANGED <<game, input, err, slot, texture_index_map, texture_indices,
                   lightmaps, tiles, surfaces, normals, meshvars, imgvars,
                   run, prev>>

\* load_lightmaps: the header fields; data is the next count*per_cell*4
\* bytes of the file, kept in the file and read through LightmapByte.
LoadLightmaps ==
    /\ pc = "lightmaps"
    /\ LET per_cell == buf.per_cell_x * buf.per_cell_y * buf.size_cell
       IN lightmaps' = [per_cell |-> per_cell,
                        count    |-> buf.lm_count,
                        len      |-> buf.lm_count * per_cell * 4]
    /\ pc' = "tiles"
    /\ UNCHANGED <<game, input, err, texvars, tiles, surfaces, normals, meshvars,
                   imgvars, run, prev>>

\* (n as f32).sqrt().round() and .ceil(), for a count n.
SqrtRound(n) ==
    CHOOSE r \in 0..n :
        /\ r = 0 \/ (2 * r - 1) * (2 * r - 1) <= 4 * n
        /\ 4 * n < (2 * r + 1) * (2 * r + 1)

\* The square root rounded down.
SqrtFloor(n) ==
    CHOOSE r \in 0..n : r * r <= n /\ n < (r + 1) * (r + 1)

SqrtCeil(n) ==
    CHOOSE r \in 0..n : r * r >= n /\ (r = 0 \/ (r - 1) * (r - 1) < n)

RECURSIVE Pow2From(_, _)
Pow2From(p, n) == IF p >= n THEN p ELSE Pow2From(2 * p, n)

\* 2f32.powi(n.log2().ceil() as i32): the least power of two that is >= n,
\* and 0 for n = 0 (log2 is -inf, the cast saturates, the power underflows).
Pow2Ceil(n) == IF n = 0 THEN 0 ELSE Pow2From(1, n)

\* The side of an atlas cell in pixels: a 256 pixel texture and its border.
AtlasTile == 258

\* atlas_cols, atlas_rows and atlas_width (or atlas_height, from the rows)
\* of load_tiles.
AtlasCols(texture_count) == SqrtRound(texture_count)
AtlasRows(texture_count) == SqrtCeil(texture_count)
AtlasSize(cells) == Pow2Ceil(cells * AtlasTile)

\* The remap without the one pixel inset.
RemapUVNoInset(at, raw, cells, size) ==
    LET atlas_factor == Rat(cells * AtlasTile, size)
        placed == RAdd(RInt(at), raw)
        in_atlas == RMul(placed, atlas_factor)
    IN RDiv(in_atlas, RInt(cells))

\* (u + u1 * (1f32 - atlas_px_u * 2f32) + atlas_px_u) * atlas_factor_u
\* / atlas_cols, and the same of v over the rows.
RemapUV(at, raw, cells, size) ==
    LET atlas_px == Rat(1, AtlasTile)
        atlas_factor == Rat(cells * AtlasTile, size)
        inset == RSub(RInt(1), RMul(atlas_px, RInt(2)))
        scaled == RMul(raw, inset)
        placed == RAdd(RInt(at), scaled)
        padded == RAdd(placed, atlas_px)
        in_atlas == RMul(padded, atlas_factor)
    IN RDiv(in_atlas, RInt(cells))

\* One Tile of load_tiles, from its record in the file.
LoadTile(raw, indices, texture_count) ==
    LET texture == At(indices, raw.slot)
        atlas_cols == AtlasCols(texture_count)
        atlas_rows == AtlasRows(texture_count)
        u == texture % atlas_cols
        v == texture \div atlas_cols
    IN [u       |-> [c \in 1..4 |-> RemapUV(u, RawU(raw.uv)[c], atlas_cols, AtlasSize(atlas_cols))],
        v       |-> [c \in 1..4 |-> RemapUV(v, RawV(raw.uv)[c], atlas_rows, AtlasSize(atlas_rows))],
        texture |-> texture,
        light   |-> raw.light,
        color   |-> raw.color]

\* load_tiles: texture_indices[buf.next_u16() as usize] is bounds-checked.
LoadTiles ==
    /\ pc = "tiles"
    /\ IF \E k \in 1..Len(buf.tiles) : ~InBounds(texture_indices, buf.tiles[k].slot)
       THEN Panic("index out of bounds: texture_indices") /\ tiles' = tiles
       ELSE /\ tiles' = [k \in 1..Len(buf.tiles) |->
                            LoadTile(buf.tiles[k], texture_indices, Len(texture_names))]
            /\ pc' = "surfaces"
            /\ err' = err
    /\ UNCHANGED <<game, input, texvars, lightmaps, surfaces, normals, meshvars,
                   imgvars, run, prev>>

\* buf.next_f32() / 5f32, for the heights of the model (multiples of 5).
Scale(h) == h \div 5

\* One Surface of load_surfaces, from its record in the file.
LoadSurface(raw) ==
    [height     |-> [k \in 1..4 |-> Scale(raw.height[k])],
     tile_up    |-> raw.tile_up,
     tile_front |-> raw.tile_front,
     tile_right |-> raw.tile_right]

\* load_surfaces: (0..width * height) records, row-major.  The product is
\* a u32 one: when it does not fit, a build with overflow checks panics
\* and a build without them reads the wrapped count of records.
LoadSurfaces ==
    /\ pc = "surfaces"
    /\ LET count == MulU32(buf.width, buf.height)
       IN \/ /\ count.overflow
             /\ Panic("attempt to multiply with overflow")
             /\ surfaces' = surfaces
          \/ /\ surfaces' = [k \in 1..count.wrapped |-> LoadSurface(buf.surfaces[k])]
             /\ pc' = "normals"
             /\ err' = err
    /\ UNCHANGED <<game, input, texvars, lightmaps, tiles, normals, meshvars,
                   imgvars, run, prev>>

----------------------------------------------------------------------------
(* smooth_normal, lines 517-588.  A flat normal is kept as a symbol: 0 is  *)
(* the zero vector, k > 0 the unit normal of cell k-1.  A corner normal is *)
(* the four terms of its sum, in the order the code adds them.             *)

\* Pass 1: tmp[cell], set only for a cell with a top face.
FlatNormal(srf, i) == IF At(srf, i).tile_up > 0 - 1 THEN i + 1 ELSE 0

\* fn or(tmp, x, y, width)
Or(tmp, x, y, width) ==
    LET i == y * width + x
    IN IF x < 0 \/ y < 0 \/ Len(tmp) <= i THEN 0 ELSE At(tmp, i)

\* Pass 2 for the cell (x, y): up left, up right, bottom right, bottom left.
CornerNormals(tmp, x, y, width) ==
    LET own == At(tmp, x + y * width)
    IN << <<own, Or(tmp, x - 1, y, width), Or(tmp, x - 1, y - 1, width),
            Or(tmp, x, y - 1, width)>>,
          <<own, Or(tmp, x + 1, y, width), Or(tmp, x + 1, y - 1, width),
            Or(tmp, x, y - 1, width)>>,
          <<own, Or(tmp, x + 1, y, width), Or(tmp, x + 1, y + 1, width),
            Or(tmp, x, y + 1, width)>>,
          <<own, Or(tmp, x - 1, y, width), Or(tmp, x - 1, y + 1, width),
            Or(tmp, x, y + 1, width)>> >>

\* width * height as usize does not wrap: pass 1 reads surfaces[y * width
\* + x] for every cell, and the index is bounds-checked.
SurfacesShort(srf, width, height) ==
    MulU32(width, height).overflow \/ Len(srf) < width * height

SmoothNormal ==
    /\ pc = "normals"
    /\ IF SurfacesShort(surfaces, buf.width, buf.height)
       THEN /\ \/ Panic("index out of bounds: surfaces")
               \/ Panic("memory allocation failed")
            /\ normals' = normals
       ELSE /\ LET width == buf.width
                   height == buf.height
                   tmp == [k \in 1..(width * height) |-> FlatNormal(surfaces, k - 1)]
               IN normals' = [k \in 1..(width * height) |->
                                CornerNormals(tmp, (k - 1) % width, (k - 1) \div width,
                                              width)]
            /\ pc' = "mesh"
            /\ err' = err
    /\ UNCHANGED <<game, input, texvars, lightmaps, tiles, surfaces, meshvars,
                   imgvars, run, prev>>

----------------------------------------------------------------------------
(* Gnd::load, lines 98-326: the mesh loop.                                 *)

\* i % l_count_w as u16 is evaluated first and panics on a zero divisor.
LightmapAtlasTraps(l_count_w) == l_count_w = 0

\* The side of a lightmap block in texels.
LightmapTile == 8

\* The grid cell with the remainder and the quotient exchanged.
LightmapAtlasSwapped(i, l_count_w) ==
    [col |-> IF l_count_w = 0 THEN 0 ELSE i \div l_count_w,
     row |-> i % l_count_w]

\* lightmap_atlas: the grid cell of entry i, from which the four
\* coordinates are computed; i.checked_div(..).unwrap_or(0) is the row.
LightmapAtlas(i, l_count_w) ==
    [col |-> i % l_count_w,
     row |-> IF l_count_w = 0 THEN 0 ELSE i \div l_count_w]

\* lightmap_atlas: the four coordinates u1, u2, v1, v2 of the entry in the
\* grid cell lc:
\*   ((col + 0.125) / l_count_w) * ((l_count_w * 8.0) / l_width), with 0.875
\* for u2, and the same of the row over l_count_h and l_height.
LightmapUV(lc, l_count_w, l_count_h, l_width, l_height) ==
    LET U(off) == RMul(RDiv(RAdd(RInt(lc.col), off), RInt(l_count_w)),
                       Rat(l_count_w * LightmapTile, l_width))
        V(off) == RMul(RDiv(RAdd(RInt(lc.row), off), RInt(l_count_h)),
                       Rat(l_count_h * LightmapTile, l_height))
    IN [u1 |-> U(Rat(1, 8)), u2 |-> U(Rat(7, 8)),
        v1 |-> V(Rat(1, 8)), v2 |-> V(Rat(7, 8))]

\* if cell_a.tile_up > -1
HasTop(s) == s.tile_up > 0 - 1

\* The front face without the test for the last row.
HasFrontAnyRow(s, y, height) == s.tile_front > 0 - 1

\* if (cell_a.tile_front > -1) && (y + 1.0 < height as f32)
HasFront(s, y, height) == s.tile_front > 0 - 1 /\ y + 1 < height

\* if (cell_a.tile_right > -1) && (x + 1.0 < width as f32)
HasRight(s, x, width) == s.tile_right > 0 - 1 /\ x + 1 < width

\* The comparisons turned round: a corner below the threshold.
AboveWaterInverted(h, level, wheight) == \E k \in 1..4 : h[k] < level - wheight

\* The four comparisons joined by && in place of ||.
AboveWaterAll(h, level, wheight) == \A k \in 1..4 : h[k] > level - wheight

\* h_a[0] > water_level - water_height || ... || h_a[3] > ...
AboveWater(h, level, wheight) == \E k \in 1..4 : h[k] > level - wheight

\* One pushed ground quad: which face of which cell, the tile it samples
\* and the grid cell of its lightmap entry.  Its six vertices are a
\* function of these and of the tables (QuadLightmapUV, TopVertices).
Quad(kind, x, y, t, lm) == [kind |-> kind, x |-> x, y |-> y, tile |-> t, light |-> lm]

\* The state of the loop body: the two meshes and the panic, if any.
Body(m, w, e) == [mesh |-> m, water |-> w, err |-> e]

\* The face pushed without the bounds check on tiles[t].
PushFaceUnchecked(b, kind, x, y, t, s) ==
    IF b.err # "" THEN b
    ELSE Body(Append(b.mesh, Quad(kind, x, y, t, [col |-> 0, row |-> 0])), b.water, "")

\* One face of the body: tiles[t] and lightmap_atlas may panic, then the
\* quad is pushed, and for the top face the water quad after it.
PushFace(b, kind, x, y, t, s) ==
    IF b.err # "" THEN b
    ELSE IF ~InBounds(tiles, t) THEN Body(b.mesh, b.water, "index out of bounds: tiles")
    ELSE LET l_count_w == SqrtRound(lightmaps.count)
         IN IF LightmapAtlasTraps(l_count_w)
            THEN Body(b.mesh, b.water, "remainder with a divisor of zero")
            ELSE Body(Append(b.mesh,
                             Quad(kind, x, y, t, LightmapAtlas(At(tiles, t).light, l_count_w))),
                      IF kind = "top" /\ AboveWater(s.height, water_level, water_height)
                      THEN Append(b.water, [x |-> x, y |-> y])
                      ELSE b.water,
                      "")

\* Component k of the unit vector of a corner sum: x, y, z are 1, 2, 3.
Comp(sum, k) == [of |-> sum, comp |-> k]

MeshVertex(pos, normal, texcoord, lightcoord, tilecoord) ==
    [pos |-> pos, normal |-> normal, texcoord |-> texcoord,
     lightcoord |-> lightcoord, tilecoord |-> tilecoord]

\* The top face with the heights taken in index order around the quad.
TopVerticesIndexOrder(x, y, h_a, n, tile, lc, width, height) ==
    LET V(dx, dy, hk, nk, tk, lu, lv) ==
            MeshVertex(<<(x + dx) * 2, h_a[hk], (y + dy) * 2>>,
                       <<Comp(n[nk], 1), Comp(n[nk], 2), Comp(n[nk], 2)>>,
                       <<tile.u[tk], tile.v[tk]>>,
                       <<lu, lv>>,
                       <<Rat(2 * x + 1 + 2 * dx, 2 * width),
                         Rat(2 * y + 1 + 2 * dy, 2 * height)>>)
    IN <<V(0, 0, 1, 1, 1, lc.u1, lc.v1),
         V(1, 0, 2, 2, 2, lc.u2, lc.v1),
         V(1, 1, 3, 3, 4, lc.u2, lc.v2),
         V(1, 1, 3, 3, 4, lc.u2, lc.v2),
         V(0, 1, 4, 4, 3, lc.u1, lc.v2),
         V(0, 0, 1, 1, 1, lc.u1, lc.v1)>>

\* The six vertices of mesh.push([...]) of the top face, lines 120-163:
\* V(dx, dy, hk, nk, tk, lu, lv) is the vertex at (x + dx, y + dy) with
\* height h_a[hk - 1], normal of n[nk - 1], texture corner tk, lightmap
\* corner (lu, lv) and tilecoord ((x + 0.5 + dx) / width, (y + 0.5 + dy) /
\* height).
TopVertices(x, y, h_a, n, tile, lc, width, height) ==
    LET V(dx, dy, hk, nk, tk, lu, lv) ==
            MeshVertex(<<(x + dx) * 2, h_a[hk], (y + dy) * 2>>,
                       <<Comp(n[nk], 1), Comp(n[nk], 2), Comp(n[nk], 2)>>,
                       <<tile.u[tk], tile.v[tk]>>,
                       <<lu, lv>>,
                       <<Rat(2 * x + 1 + 2 * dx, 2 * width),
                         Rat(2 * y + 1 + 2 * dy, 2 * height)>>)
    IN <<V(0, 0, 1, 1, 1, lc.u1, lc.v1),
         V(1, 0, 2, 2, 2, lc.u2, lc.v1),
         V(1, 1, 4, 3, 4, lc.u2, lc.v2),
         V(1, 1, 4, 3, 4, lc.u2, lc.v2),
         V(0, 1, 3, 4, 3, lc.u1, lc.v2),
         V(0, 0, 1, 1, 1, lc.u1, lc.v1)>>

\* let l_count_w, l_count_h, l_width, l_height (lines 98-101) and the
\* (u1, u2, v1, v2) lightmap_atlas returned for the quad q of the mesh.
QuadLightmapUV(q) ==
    LET l_count_w == SqrtRound(lightmaps.count)
        l_count_h == SqrtCeil(lightmaps.count)
    IN LightmapUV(q.light, l_count_w, l_count_h,
                  Pow2Ceil(l_count_w * LightmapTile), Pow2Ceil(l_count_h * LightmapTile))

\* The vertices of the top quad q of the mesh.
TopQuadVertices(q) ==
    LET c == q.x + q.y * buf.width
    IN TopVertices(q.x, q.y, At(surfaces, c).height, At(normals, c),
                   At(tiles, q.tile), QuadLightmapUV(q), buf.width, buf.height)

\* tilecoord: [0.0, 0.0] of the six vertices of a front or right face.
SideTilecoord == <<RInt(0), RInt(0)>>

\* The tilecoord of the six vertices of the quad q of the mesh.
QuadTilecoords(q) ==
    IF q.kind = "top"
    THEN [m \in 1..6 |-> TopQuadVertices(q)[m].tilecoord]
    ELSE [m \in 1..6 |-> SideTilecoord]

\* fn one_if_zero(i: f32) -> f32
OneIfZero(r) == IF r = RInt(0) THEN RInt(1) ELSE r

WaterVertex(pos, texcoord) == [pos |-> pos, texcoord |-> texcoord]

\* The water quad with the far edges left uncorrected.
WaterVerticesNoCorrection(x, y, level) ==
    LET near(a) == Rat(a % 5, 5)
        far(a) == Rat((a + 1) % 5, 5)
    IN <<WaterVertex(<<(x + 0) * 2, level, y * 2>>, <<near(x), near(y)>>),
         WaterVertex(<<(x + 1) * 2, level, y * 2>>, <<far(x), near(y)>>),
         WaterVertex(<<(x + 1) * 2, level, (y + 1) * 2>>, <<far(x), far(y)>>),
         WaterVertex(<<(x + 1) * 2, level, (y + 1) * 2>>, <<far(x), far(y)>>),
         WaterVertex(<<(x + 0) * 2, level, (y + 1) * 2>>, <<near(x), far(y)>>),
         WaterVertex(<<(x + 0) * 2, level, y * 2>>, <<near(x), near(y)>>)>>

\* The six vertices of water.push([...]), lines 173-210: x % 5.0 / 5.0 on
\* the near edges, one_if_zero((x + 1.0) % 5.0 / 5.0) on the far ones.
WaterVertices(x, y, level) ==
    LET near(a) == RDiv(RInt(a % 5), RInt(5))
        far(a) == OneIfZero(RDiv(RInt((a + 1) % 5), RInt(5)))
    IN <<WaterVertex(<<(x + 0) * 2, level, y * 2>>, <<near(x), near(y)>>),
         WaterVertex(<<(x + 1) * 2, level, y * 2>>, <<far(x), near(y)>>),
         WaterVertex(<<(x + 1) * 2, level, (y + 1) * 2>>, <<far(x), far(y)>>),
         WaterVertex(<<(x + 1) * 2, level, (y + 1) * 2>>, <<far(x), far(y)>>),
         WaterVertex(<<(x + 0) * 2, level, (y + 1) * 2>>, <<near(x), far(y)>>),
         WaterVertex(<<(x + 0) * 2, level, y * 2>>, <<near(x), near(y)>>)>>

\* The vertices of the quad q of the water mesh.
WaterQuadVertices(q) == WaterVertices(q.x, q.y, water_level)

\* The body with the three faces tried in the order right, front, top.
CellBodyRightFirst(c) ==
    LET s == At(surfaces, c)
        x == c % buf.width
        y == c \div buf.width
        b0 == Body(mesh, water, "")
        b1 == IF HasRight(s, x, buf.width)
              THEN PushFace(b0, "right", x, y, s.tile_right, s) ELSE b0
        b2 == IF b1.err = "" /\ HasFront(s, y, buf.height)
              THEN PushFace(b1, "front", x, y, s.tile_front, s) ELSE b1
        b3 == IF b2.err = "" /\ HasTop(s)
              THEN PushFace(b2, "top", x, y, s.tile_up, s) ELSE b2
    IN b3

\* The body of the loop for the cell at index c.
CellBody(c) ==
    LET s == At(surfaces, c)
        x == c % buf.width
        y == c \div buf.width
        b0 == Body(mesh, water, "")
        b1 == IF HasTop(s) THEN PushFace(b0, "top", x, y, s.tile_up, s) ELSE b0
        b2 == IF b1.err = "" /\ HasFront(s, y, buf.height)
              THEN PushFace(b1, "front", x, y, s.tile_front, s) ELSE b1
        b3 == IF b2.err = "" /\ HasRight(s, x, buf.width)
              THEN PushFace(b2, "right", x, y, s.tile_right, s) ELSE b2
    IN b3

\* One iteration of for y in 0..height { for x in 0..width { ... } }
MeshCell ==
    /\ pc = "mesh"
    /\ cell < buf.width * buf.height
    /\ LET b == CellBody(cell)
       IN /\ mesh' = b.mesh
          /\ water' = b.water
          /\ IF b.err # ""
             THEN Panic(b.err) /\ cell' = cell
             ELSE pc' = pc /\ err' = err /\ cell' = cell + 1
    /\ UNCHANGED <<game, input, texvars, lightmaps, tiles, surfaces, normals,
                   imgvars, run, prev>>

\* println!("{:?}", ...(&mesh[0..100])): the slice is bounds-checked.
DebugSlice == 100

MeshDone ==
    /\ pc = "mesh"
    /\ cell = buf.width * buf.height
    /\ IF Len(mesh) < DebugSlice
       THEN Panic("range end index out of range for slice")
       ELSE pc' = "lightmap_image" /\ err' = err
    /\ UNCHANGED <<game, input, texvars, lightmaps, tiles, surfaces, normals,
                   meshvars, imgvars, run, prev>>

----------------------------------------------------------------------------
(* Gnd::load, lines 334-370: the derived images and the result.            *)

\* let mesh_vert_count = mesh.len() / 12; let water_vert_count = water.len() / 5
MeshVertCount == Len(mesh) \div 12
WaterVertCount == Len(water) \div 5

\* Byte k of the lightmap block of the file (lightmaps.data[k]): bytes
\* that differ from texel to texel, from layer to layer and from entry to
\* entry.
LightmapByte(k) == (k * 37 + (k \div 64) * 101 + 11) % 256

\* b >> 4 alone, the shift back left out.
PosteriseShiftOnly(b) == b \div 16

\* b >> 4 << 4 on a u8
Posterise(b) == (b \div 16) * 16

\* create_lightmap_image, lines 447-449: the corner (x, y) of the block of
\* entry i in the image of count entries.
LightmapBlock(i, count) ==
    LET width == SqrtRound(count)
    IN [x |-> (i % width) * 8, y |-> (IF width = 0 THEN 0 ELSE i \div width) * 8]

\* create_texture_atlas: the pixel size of the atlas of count textures;
\* next_power_of_two of 0 is 1.
TextureAtlasSize(count) ==
    LET _width == SqrtRound(count)
        w == _width * AtlasTile
        h == SqrtCeil(count) * AtlasTile
    IN [width  |-> IF w = 0 THEN 1 ELSE Pow2From(1, w),
        height |-> IF h = 0 THEN 1 ELSE Pow2From(1, h)]

\* create_texture_atlas: the corner (x, y) of the 258x258 rectangle texture
\* i is blitted to.
TextureBlock(i, count) ==
    LET _width == SqrtRound(count)
    IN [x |-> (i % _width) * AtlasTile, y |-> (i \div _width) * AtlasTile]

\* The last lightmap entry whose 8x8 block covers the pixel (px, py), or -1.
LastWriter(count, width, px, py) ==
    LET W == {i \in 0..(count - 1) :
                 /\ (i % width) * 8 <= px /\ px < (i % width) * 8 + 8
                 /\ (i \div width) * 8 <= py /\ py < (i \div width) * 8 + 8}
    IN IF W = {} THEN 0 - 1 ELSE CHOOSE i \in W : \A j \in W : j <= i

\* create_lightmap_image reads data and writes out through checked indices:
\* the largest of each must be in bounds for every entry.
LightmapImageTraps(lm) ==
    LET width == SqrtRound(lm.count)
        height == SqrtCeil(lm.count)
        w2 == Pow2Ceil(width * 8)
        h2 == Pow2Ceil(height * 8)
    IN \E i \in 0..(lm.count - 1) :
          \/ i * 4 * lm.per_cell + lm.per_cell + 63 * 3 + 2 >= lm.len
          \/ i * 4 * lm.per_cell + 63 >= lm.len
          \/ (((i % width) * 8 + 7) + ((i \div width) * 8 + 7) * w2) * 4 + 3 >= w2 * h2 * 4

\* create_lightmap_image: byte q of out.
LightmapImageByte(lm, q) ==
    LET width == SqrtRound(lm.count)
        w2 == Pow2Ceil(width * 8)
        px == (q \div 4) % w2
        py == (q \div 4) \div w2
        c == q % 4
        i == LastWriter(lm.count, width, px, py)
        pos == i * 4 * lm.per_cell
        tx == px - (i % width) * 8
        ty == py - (i \div width) * 8
    IN IF i < 0 THEN 0
       ELSE IF c = 3 THEN LightmapByte(pos + (tx + ty * 8))
       ELSE Posterise(LightmapByte(pos + lm.per_cell + (tx + ty * 8) * 3 + c))

CreateLightmapImage(lm) ==
    LET w2 == Pow2Ceil(SqrtRound(lm.count) * 8)
        h2 == Pow2Ceil(SqrtCeil(lm.count) * 8)
    IN [q \in 1..(w2 * h2 * 4) |-> LightmapImageByte(lm, q - 1)]

LightmapImage ==
    /\ pc = "lightmap_image"
    /\ IF LightmapImageTraps(lightmaps)
       THEN Panic("index out of bounds: lightmap image") /\ UNCHANGED lightmap_image
       ELSE /\ lightmap_image' = CreateLightmapImage(lightmaps)
            /\ pc' = "tiles_color_image"
            /\ err' = err
    /\ UNCHANGED <<game, input, texvars, lightmaps, tiles, surfaces, normals,
                   meshvars, tiles_color_image, shadowmap_image, run, prev>>

\* The colour copied for every cell, a cell without a top tile taking tile 0.
TilesColorByteUnguarded(srf, tls, q) ==
    LET s == At(srf, q \div 4)
    IN At(tls, IF s.tile_up > 0 - 1 THEN s.tile_up ELSE 0).color[(q % 4) + 1]

\* The pixel of cell (x, y) taken from the surface at index x*height + y.
TilesColorByteColumnMajor(srf, tls, q) ==
    LET width == Len(srf) \div buf.height
        x == (q \div 4) % width
        y == (q \div 4) \div width
        s == At(srf, x * buf.height + y)
    IN IF s.tile_up > 0 - 1 THEN At(tls, s.tile_up).color[(q % 4) + 1] ELSE 0

\* create_tiles_color_image: byte q of data.
TilesColorByte(srf, tls, q) ==
    LET s == At(srf, q \div 4)
    IN IF s.tile_up > 0 - 1 THEN At(tls, s.tile_up).color[(q % 4) + 1] ELSE 0

CreateTilesColorImage(width, height, srf, tls) ==
    [q \in 1..(width * height * 4) |-> TilesColorByte(srf, tls, q - 1)]

\* tiles[cell.tile_up as usize] is bounds-checked.
TilesColorImageTraps(srf, tls) ==
    \E k \in 1..Len(srf) : srf[k].tile_up > 0 - 1 /\ ~InBounds(tls, srf[k].tile_up)

TilesColorImage ==
    /\ pc = "tiles_color_image"
    /\ IF TilesColorImageTraps(surfaces, tiles)
       THEN Panic("index out of bounds: tiles") /\ UNCHANGED tiles_color_image
       ELSE /\ tiles_color_image' =
                  CreateTilesColorImage(buf.width, buf.height, surfaces, tiles)
            /\ pc' = "shadowmap_image"
            /\ err' = err
    /\ UNCHANGED <<game, input, texvars, lightmaps, tiles, surfaces, normals,
                   meshvars, lightmap_image, shadowmap_image, run, prev>>

\* The shadow byte read past the alpha layer, from the entry's RGB layer.
ShadowmapByteRgbLayer(width, srf, tls, lm, q) ==
    LET px == q % (width * 8)
        py == q \div (width * 8)
        x == px \div 8
        y == py \div 8
        i == px % 8
        j == py % 8
        s == At(srf, y * width + x)
    IN IF s.tile_up > 0 - 1
       THEN LightmapByte(At(tls, s.tile_up).light * 4 * lm.per_cell + lm.per_cell
                         + i + j * 8)
       ELSE 255

\* create_shadowmap_image: byte q of out.
ShadowmapByte(width, srf, tls, lm, q) ==
    LET px == q % (width * 8)
        py == q \div (width * 8)
        x == px \div 8
        y == py \div 8
        i == px % 8
        j == py % 8
        s == At(srf, y * width + x)
    IN IF s.tile_up > 0 - 1
       THEN LightmapByte(At(tls, s.tile_up).light * 4 * lm.per_cell + i + j * 8)
       ELSE 255

CreateShadowmapImage(width, height, srf, tls, lm) ==
    [q \in 1..(width * 8 * height * 8) |-> ShadowmapByte(width, srf, tls, lm, q - 1)]

\* tiles[..] and data[index + i + j * 8] are bounds-checked.
ShadowmapImageTraps(srf, tls, lm) ==
    \E k \in 1..Len(srf) :
        /\ srf[k].tile_up > 0 - 1
        /\ \/ ~InBounds(tls, srf[k].tile_up)
           \/ At(tls, srf[k].tile_up).light * 4 * lm.per_cell + 7 + 7 * 8 >= lm.len

ShadowmapImage ==
    /\ pc = "shadowmap_image"
    /\ IF ShadowmapImageTraps(surfaces, tiles, lightmaps)
       THEN Panic("index out of bounds: shadow map") /\ UNCHANGED shadowmap_image
       ELSE /\ shadowmap_image' =
                  CreateShadowmapImage(buf.width, buf.height, surfaces, tiles, lightmaps)
            /\ pc' = "done"
            /\ err' = err
    /\ UNCHANGED <<game, input, texvars, lightmaps, tiles, surfaces, normals,
                   meshvars, lightmap_image, tiles_color_image, run, prev>>

\* What the call gave its caller: the Gnd, or the panic.
Result ==
    IF pc = "done"
    THEN [texture_names     |-> texture_names,
          texture_indices   |-> texture_indices,
          mesh              |-> mesh,
          water_mesh        |-> water,
          lightmap_image    |-> lightmap_image,
          tiles_color_image |-> tiles_color_image,
          shadowmap_image   |-> shadowmap_image]
    ELSE [panic |-> err]

Ended == pc \in {"done", "panic"}

Next ==
    \/ CheckHeader
    \/ LoadTexturesStep
    \/ LoadTexturesCollect
    \/ LoadLightmaps
    \/ LoadTiles
    \/ LoadSurfaces
    \/ SmoothNormal
    \/ MeshCell
    \/ MeshDone
    \/ LightmapImage
    \/ TilesColorImage
    \/ ShadowmapImage

\* One call of Gnd::load on every input of the model.
Spec == Init /\ [][Next]_vars

----------------------------------------------------------------------------
(* A caller that calls Gnd::load again.                                    *)

\* A new call starts with fresh locals: nothing of the last call survives.
Restart ==
    /\ run' = run + 1
    /\ pc' = "header"
    /\ err' = ""
    /\ slot' = 0
    /\ texture_index_map' = [n \in {} |-> 0]
    /\ texture_indices' = <<>>
    /\ texture_names' = <<>>
    /\ lightmaps' = [per_cell |-> 0, count |-> 0, len |-> 0]
    /\ tiles' = <<>>
    /\ surfaces' = <<>>
    /\ normals' = <<>>
    /\ cell' = 0
    /\ mesh' = <<>>
    /\ water' = <<>>
    /\ tiles_color_image' = NoImage
    /\ shadowmap_image' = NoImage
    /\ lightmap_image' = NoImage

\* The same bytes and the same water arguments again; the caller keeps
\* what the call before returned.
Rerun ==
    /\ Ended
    /\ run < MaxRuns
    /\ prev' = [result |-> Result]
    /\ Restart
    /\ UNCHANGED <<game, input>>

NextRerun == Next \/ Rerun

\* The large grid under the largest lightmap table.
InitRerunBig ==
    \E p \in 0..(BigW * BigH - 1), special \in BigSpecialCells :
        Start(Call(File("GRGN", BigW, BigH, DefNames, MaxLightmaps,
                        Grid(BigW, BigH, FullCell, p, special)), MidWater))

\* Every texture table, every uniform small grid and the large grids.
InitRerun == InitTextures \/ InitLight \/ InitRerunBig

SpecRerun == InitRerun /\ [][NextRerun]_vars

\* The file with corner k of the cell at index c set to the height v.
Raised(file, c, k, v) ==
    [file EXCEPT !.surfaces[c + 1].height[k] = v]

\* The same call but for one corner height of one cell, raised above
\* water_level - water_height; the caller keeps the water quads the first
\* call had pushed when it ended, and which cell it raised.
RaiseAndRerun ==
    /\ Ended
    /\ run = 1
    /\ \E c \in 0..(Len(buf.surfaces) - 1), k \in 1..4, v \in FileHeights :
          /\ v > buf.surfaces[c + 1].height[k]
          /\ Scale(v) > water_level - water_height
          /\ buf' = Raised(buf, c, k, v)
          /\ prev' = [water |-> water, raised |-> c]
    /\ Restart
    /\ UNCHANGED <<game, water_level, water_height>>

\* Small grids whose free cell has every height set, with and without a
\* top face, under every water argument.
InitRaiseSmall ==
    \E w \in 1..MaxW, h \in 1..MaxH, base \in {FullCell, SunkCell},
       hs \in HeightSets, up \in {0 - 1, 0}, lm \in {0, 1}, wa \in WaterArgs :
        \E p \in 0..(w * h - 1) :
            Start(Call(File("GRGN", w, h, DefNames, lm,
                            Grid(w, h, base, p, RawSurface(hs, up, 0 - 1, 0 - 1))), wa))

\* The large grid, whose load returns a map, with one low cell at an end.
InitRaiseBig ==
    \E p \in {0, BigW * BigH - 1}, special \in {SunkCell, BareCell} :
        Start(Call(File("GRGN", BigW, BigH, DefNames, 1,
                        Grid(BigW, BigH, FullCell, p, special)), MidWater))

InitRaise == InitRaiseSmall \/ InitRaiseBig

NextRaise == Next \/ RaiseAndRerun

SpecRaise == InitRaise /\ [][NextRaise]_vars

----------------------------------------------------------------------------
(* ElapsedTime.  Time is counted in ticks of a tenth of a second, which    *)
(* every duration of the skills below is a whole number of.                *)

\* ElapsedTime::add_seconds.
AddSeconds(t, ticks) == t + ticks

\* ElapsedTime::has_already_passed: the moment t is not after now.
HasAlreadyPassed(t, now) == t <= now

\* The f32 values that are no rationals: 0/0 and 1/0.
NaN == <<0, 0>>
Infinity == <<1, 0>>

\* ElapsedTime::percentage_between: how far now is on the way from..to.
PercentageBetween(now, from, to) ==
    IF to > from THEN Rat(now - from, to - from)
    ELSE IF to = from /\ now = from THEN NaN
    ELSE IF to = from THEN Infinity
    ELSE Rat(from - now, from - to)

\* a > b and a < b for an f32 a that may be NaN or infinite, and a rational b.
FGreater(a, b) == IF a = NaN THEN FALSE ELSE IF a = Infinity THEN TRUE ELSE RLess(b, a)
FLess(a, b) == IF a \in {NaN, Infinity} THEN FALSE ELSE RLess(a, b)

\* The frame times the game loop can reach from now.
LaterTimes(now, steps, last) == {t \in {now + dt : dt \in steps} : t <= last}

\* The game loop runs: no map is being loaded.
NoLoad ==
    /\ buf = File("GRGN", 0, 0, <<>>, 0, <<>>)
    /\ water_level = 0
    /\ water_height = 0
    /\ Fresh
    /\ run = 1
    /\ prev = <<>>

----------------------------------------------------------------------------
(* AssaBladeDashStatus (assa_blade_dash.rs).                               *)

MaxDashTime == 12
MaxDashCalls == 6

\* dev_configs.skills.assa_blade_dash.duration_seconds, in ticks.
DashDurations == {0, 1, 4, 8}

\* The time between two frames, in ticks.
DashSteps == {0, 1, 2, 5}

\* do_finish_cast at the moment now, and on_apply: the status as it is
\* applied to the caster.  body_pos is the caster's place on the way
\* start_pos + vector * body_pos; result and calls are what the status
\* system saw: the value of the last update and the number of updates.
AssaBladeDashStatus(now, duration) ==
    [started_at |-> now,
     ends_at |-> AddSeconds(now, duration),
     forward_damage_done |-> FALSE,
     backward_damage_done |-> FALSE,
     body_pos |-> RInt(0),
     collidable |-> FALSE,
     result |-> "none",
     calls |-> 0]

\* The position update sets for the body, along the dash vector.
DashBodyPos(perc) ==
    IF FLess(perc, Rat(1, 2)) THEN RMul(perc, RInt(2))
    ELSE IF perc \in {NaN, Infinity} THEN perc
    ELSE RMul(RSub(RInt(1), perc), RInt(2))

\* The area attack update pushes in its call number call.
DashAttack(typ, call) == [typ |-> typ, call |-> call]

\* The damage part of update with two independent ifs.
DashDamageBothBranches(self, attacks, perc) ==
    LET fwd  == ~self.forward_damage_done /\ FGreater(perc, Rat(1, 4))
        back == ~self.backward_damage_done /\ FGreater(perc, Rat(3, 4))
        a1   == IF fwd THEN Append(attacks, DashAttack("first_damage", self.calls))
                ELSE attacks
        a2   == IF back THEN Append(a1, DashAttack("second_damage", self.calls))
                ELSE a1
    IN  [self |-> [self EXCEPT !.forward_damage_done = @ \/ fwd,
                               !.backward_damage_done = @ \/ back],
         attacks |-> a2]

\* The damage part of update, an else-if: what it leaves of the status
\* self and of the area attacks at the percentage perc.
DashDamage(self, attacks, perc) ==
    IF ~self.forward_damage_done /\ FGreater(perc, Rat(1, 4))
    THEN [self |-> [self EXCEPT !.forward_damage_done = TRUE],
          attacks |-> Append(attacks, DashAttack("first_damage", self.calls))]
    ELSE IF ~self.backward_damage_done /\ FGreater(perc, Rat(3, 4))
    THEN [self |-> [self EXCEPT !.backward_damage_done = TRUE],
          attacks |-> Append(attacks, DashAttack("second_damage", self.calls))]
    ELSE [self |-> self, attacks |-> attacks]

\* AssaBladeDashStatus::update in the frame of time now; body tells
\* whether the caster still has a rigid body.
DashUpdate ==
    /\ status.calls < MaxDashCalls
    /\ \E now \in LaterTimes(sys_vars.time, DashSteps, MaxDashTime), body \in BOOLEAN :
        LET self == [status EXCEPT !.calls = @ + 1]
            perc == PercentageBetween(now, self.started_at, self.ends_at)
            dmg  == DashDamage([self EXCEPT !.body_pos = DashBodyPos(perc)],
                               sys_vars.area_attacks, perc)
        IN  IF ~body
            THEN /\ status' = [self EXCEPT !.result = "RemoveIt"]
                 /\ sys_vars' = [sys_vars EXCEPT !.time = now]
            ELSE IF HasAlreadyPassed(self.ends_at, now)
            THEN /\ status' = [self EXCEPT !.collidable = TRUE,
                                           !.result = "RemoveIt"]
                 /\ sys_vars' = [sys_vars EXCEPT !.time = now]
            ELSE /\ status' = [dmg.self EXCEPT !.result = "KeepIt"]
                 /\ sys_vars' = [time |-> now, area_attacks |-> dmg.attacks]
    /\ UNCHANGED <<gndvars, manifest, updater, render_sys, video>>

\* The dash is cast at some moment with some configured duration.
InitDash ==
    /\ NoLoad
    /\ \E now \in 0..1, duration \in DashDurations :
        /\ sys_vars = [time |-> now, area_attacks |-> <<>>]
        /\ status = AssaBladeDashStatus(now, duration)
    /\ manifest = "none"
    /\ updater = "none"
    /\ render_sys = "none"
    /\ video = "none"

SpecDash == InitDash /\ [][DashUpdate]_vars

----------------------------------------------------------------------------
(* LightningManifest (lightning.rs).                                       *)

MaxLightningTime == 130

\* The durations of update, in ticks: 12.0, 1.5, 1.0 and 0.6 seconds.
LightningLife == 120
ActionEvery == 15
DamageAfter == 10
DamageEvery == 6

\* The time between two frames, in ticks.
LightningSteps == {0, 5, 10, 15, 40}

\* Vector2<f32>: sum and scaling.
VAdd(a, b) == <<RAdd(a[1], b[1]), RAdd(a[2], b[2])>>
VScale(a, r) == <<RMul(a[1], r), RMul(a[2], r)>>

\* The casts: a skill centre and the direction from the caster to it.
LightningCasts ==
    {[skill_center |-> <<RInt(0), RInt(0)>>, dir_vector |-> <<RInt(1), RInt(0)>>],
     [skill_center |-> <<RInt(3), RInt(-2)>>, dir_vector |-> <<Rat(3, 5), Rat(-4, 5)>>]}

\* LightningManifest::new.
LightningManifest(skill_center, dir_vector, now) ==
    [pos |-> skill_center,
     created_at |-> now,
     next_action_at |-> now,
     next_damage_at |-> now,
     last_skill_pos |-> skill_center,
     action_count |-> 0,
     dir_vector |-> dir_vector]

\* The arms 0..5 of the match with the places in the order of the count.
LightningEffectPosForward(self) ==
    VAdd(self.pos, VScale(VScale(self.dir_vector, RInt(self.action_count)),
                          Rat(22, 10)))

\* The arms 0..5 of the match on action_count: the place of the effect.
LightningEffectPos(self) ==
    CASE self.action_count \in {0, 5} -> self.pos
      [] self.action_count \in {1, 4} ->
            VAdd(self.pos, VScale(self.dir_vector, Rat(22, 10)))
      [] self.action_count \in {2, 3} ->
            VAdd(self.pos, VScale(VScale(self.dir_vector, RInt(2)), Rat(22, 10)))

\* The StrEffectComponent of a strike at pos in the frame of time now.
StrEffectComponent(pos, now) ==
    [pos |-> pos, start_time |-> AddSeconds(now, -5), die_at |-> AddSeconds(now, 10)]

\* The strike part of update: the manifest, the effect component (<<>>
\* when there is none) and whether update returned in the match.
LightningAction(self, effect, now) ==
    IF ~HasAlreadyPassed(self.next_action_at, now)
    THEN [self |-> self, effect |-> effect, returned |-> FALSE]
    ELSE IF self.action_count \notin 0..5
    THEN [self |-> self, effect |-> <<>>, returned |-> TRUE]
    ELSE LET pos == LightningEffectPos(self)
         IN  [self |-> [self EXCEPT !.last_skill_pos = pos,
                                    !.action_count = @ + 1,
                                    !.next_action_at = AddSeconds(now, ActionEvery),
                                    !.next_damage_at = AddSeconds(now, DamageAfter)],
              effect |-> <<StrEffectComponent(pos, now)>>,
              returned |-> FALSE]

\* The area attack update pushes; strikes is the number of strikes before it.
LightningAttack(self) == [area_isom |-> self.last_skill_pos, strikes |-> self.action_count]

\* The damage part of update, with next_damage_at left as it is.
LightningDamageNoDelay(self, attacks, now) ==
    IF HasAlreadyPassed(self.next_damage_at, now)
    THEN [self |-> self, attacks |-> Append(attacks, LightningAttack(self))]
    ELSE [self |-> self, attacks |-> attacks]

\* The damage part of update.
LightningDamage(self, attacks, now) ==
    IF HasAlreadyPassed(self.next_damage_at, now)
    THEN [self |-> [self EXCEPT !.next_damage_at = AddSeconds(@, DamageEvery)],
          attacks |-> Append(attacks, LightningAttack(self))]
    ELSE [self |-> self, attacks |-> attacks]

\* LightningManifest::update in the frame of time now.  updater holds what
\* its removes and inserts leave: whether the SkillManifestationComponent
\* is there, and the StrEffectComponent of effect_id (<<>> for none).
LightningUpdate ==
    \E now \in LaterTimes(sys_vars.time, LightningSteps, MaxLightningTime) :
        LET act == LightningAction(manifest, updater.effect, now)
            dmg == LightningDamage(act.self, sys_vars.area_attacks, now)
        IN  /\ IF HasAlreadyPassed(AddSeconds(manifest.created_at, LightningLife), now)
               THEN /\ updater' = [manifestation |-> FALSE, effect |-> <<>>]
                    /\ manifest' = manifest
                    /\ sys_vars' = [sys_vars EXCEPT !.time = now]
               ELSE IF act.returned
               THEN /\ updater' = [updater EXCEPT !.effect = act.effect]
                    /\ manifest' = act.self
                    /\ sys_vars' = [sys_vars EXCEPT !.time = now]
               ELSE /\ updater' = [updater EXCEPT !.effect = act.effect]
                    /\ manifest' = dmg.self
                    /\ sys_vars' = [time |-> now, area_attacks |-> dmg.attacks]
            /\ UNCHANGED <<gndvars, status, render_sys, video>>

\* The skill is cast at some place in some direction at some moment.
InitLightning ==
    /\ NoLoad
    /\ \E c \in LightningCasts, now \in {0, 3} :
        /\ sys_vars = [time |-> now, area_attacks |-> <<>>]
        /\ manifest = LightningManifest(c.skill_center, c.dir_vector, now)
    /\ updater = [manifestation |-> TRUE, effect |-> <<>>]
    /\ status = "none"
    /\ render_sys = "none"
    /\ video = "none"

SpecLightning == InitLightning /\ [][LightningUpdate]_vars

----------------------------------------------------------------------------
(* OpenGlRenderSystem (opengl_render_sys.rs): the 2D texts and the effects *)
(* of a frame.  An Option is <<>> for None and <<x>> for Some(x).          *)

MaxFrames == 3

\* The texts of the 2D text commands, and the command lists of a frame.
Texts == {"hp", "sp"}
TextCommands == {<<>>, <<"hp">>, <<"hp", "sp">>, <<"sp", "sp">>}

\* A key frame of a layer of a .str effect; the arrays color, pos and xy
\* are one number each, all their components being computed alike.
KeyFrame(frame, typ, color, pos, xy, angle, texture_index) ==
    [frame |-> frame, typ |-> typ, color |-> color, pos |-> pos, xy |-> xy,
     angle |-> angle, src_alpha |-> 5, dst_alpha |-> 7,
     texture_index |-> texture_index]

\* system_vars.map_render_data.str_effects: one effect of three layers.
StrEffects ==
    [name \in {"lightning"} |->
        [layers |->
            <<[key_frames |-> <<KeyFrame(0, "Start", 10, 300, 4, 1, 0),
                                KeyFrame(0, "End", 1, 2, 3, 4, 0),
                                KeyFrame(5, "Start", 20, 310, 5, 2, 1)>>],
              [key_frames |-> <<KeyFrame(0, "Start", 30, 320, 6, 3, 1),
                                KeyFrame(2, "End", 1, 1, 1, 1, 1),
                                KeyFrame(5, "Start", 40, 330, 7, 4, 0)>>],
              [key_frames |-> <<>>]>>]]

\* EffectFrameCacheKey; layer_index counts from 0.
EffectFrameCacheKey(effect_name, layer_index, key_index) ==
    [effect_name |-> effect_name, layer_index |-> layer_index,
     key_index |-> key_index]

\* The keys the frames carry: prepare_effect gives a morphed frame for the
\* first, a plain frame for the second and None for the others.
EffectKeys ==
    {EffectFrameCacheKey("lightning", 0, 2), EffectFrameCacheKey("lightning", 1, 3),
     EffectFrameCacheKey("lightning", 0, 5), EffectFrameCacheKey("lightning", 2, 0)}

\* render_commands.effect_commands: a map from the keys of the frame to
\* the model matrices of each, here their number.
EffectCommands ==
    {[key \in keys |-> n] :
        keys \in {ks \in SUBSET EffectKeys : Cardinality(ks) <= 2}, n \in 1..2}

\* The largest of a set of numbers and 0.
MaxOf(S) == IF S = {} THEN 0 ELSE CHOOSE m \in S : \A n \in S : n <= m

\* The last key frame of the type typ up to key_index, as an Option of its
\* index in key_frames (counted from 1).
LastKeyFrame(layer, typ, key_index) ==
    LET ids == {i \in 1..Len(layer.key_frames) :
                   /\ layer.key_frames[i].frame <= key_index
                   /\ layer.key_frames[i].typ = typ}
    IN  IF ids = {} THEN <<>> ELSE <<MaxOf(ids)>>

\* EffectFrameCache of the values color, pos, xy, angle and the from frame.
EffectFrameCache(color, pos, xy, angle, from_frame) ==
    [pos_vao |-> xy, offset |-> pos - 320, color |-> color, rotation |-> 0 - angle,
     src_alpha |-> from_frame.src_alpha, dst_alpha |-> from_frame.dst_alpha,
     texture_index |-> from_frame.texture_index]

\* OpenGlRenderSystem::prepare_effect.
PrepareEffect(layer, key_index) ==
    LET frames == layer.key_frames
        from_id == LastKeyFrame(layer, "Start", key_index)
        to_id == LastKeyFrame(layer, "End", key_index)
        last_frame_id == MaxOf({frames[i].frame : i \in 1..Len(frames)})
        last_source_id ==
            MaxOf({frames[i].frame : i \in {j \in 1..Len(frames) : frames[j].typ = "Start"}})
    IN  IF from_id = <<>> \/ to_id = <<>> \/ last_frame_id < key_index THEN <<>>
        ELSE IF from_id[1] > Len(frames) \/ to_id[1] > Len(frames) THEN <<>>
        ELSE LET from_frame == frames[from_id[1]]
                 to_frame == frames[to_id[1]]
                 delta == key_index - from_frame.frame
             IN  IF to_id[1] # from_id[1] + 1 \/ to_frame.frame # from_frame.frame
                 THEN IF last_source_id <= from_frame.frame THEN <<>>
                      ELSE <<EffectFrameCache(from_frame.color, from_frame.pos,
                                              from_frame.xy, from_frame.angle,
                                              from_frame)>>
                 ELSE <<EffectFrameCache(from_frame.color + to_frame.color * delta,
                                         from_frame.pos + to_frame.pos * delta,
                                         from_frame.xy + to_frame.xy * delta,
                                         from_frame.angle + to_frame.angle * delta,
                                         from_frame)>>

\* The body of the loop over the 2D text commands, for the commands cmds
\* in turn: text_cache, the number of textures Video::create_text_texture
\* has made (the newest has that number) and the draws of the frame.
RECURSIVE TextLoop(_, _, _, _)
TextLoop(cmds, text_cache, textures, draws) ==
    IF cmds = <<>> THEN [text_cache |-> text_cache, textures |-> textures, draws |-> draws]
    ELSE LET text == Head(cmds)
             made == textures + 1
             cache == IF text \in DOMAIN text_cache THEN text_cache
                      ELSE [t \in DOMAIN text_cache \cup {text} |->
                               IF t = text THEN made ELSE text_cache[t]]
         IN  TextLoop(Tail(cmds), cache, made,
                      Append(draws, [text |-> text, texture |-> cache[text]]))

\* The body of the loop for one key without the lookup: every frame
\* prepares the entry, stores it and draws it.
EffectCommandNoCache(str_effect_cache, key, matrices) ==
    LET layer == StrEffects[key.effect_name].layers[key.layer_index + 1]
        frame == PrepareEffect(layer, key.key_index)
    IN  [entry |-> frame, prepared |-> 1,
         draws |-> IF frame = <<>> THEN 0 ELSE matrices]

\* The body of the loop over the effect commands for one key: the entry of
\* str_effect_cache it leaves (an Option of the stored Option), whether
\* it called prepare_effect, and how many draws it made.
EffectCommand(str_effect_cache, key, matrices) ==
    LET cached_frame == IF key \in DOMAIN str_effect_cache
                        THEN <<str_effect_cache[key]>> ELSE <<>>
        layer == StrEffects[key.effect_name].layers[key.layer_index + 1]
    IN  IF cached_frame = <<>>
        THEN [entry |-> PrepareEffect(layer, key.key_index), prepared |-> 1, draws |-> 0]
        ELSE IF cached_frame = <<<<>>>>
        THEN [entry |-> cached_frame[1], prepared |-> 0, draws |-> 0]
        ELSE [entry |-> cached_frame[1], prepared |-> 0, draws |-> matrices]

\* OpenGlRenderSystem::run for the frame with the commands texts and
\* effects.  video holds what the frame did outside the system: the
\* commands it was given, the number of textures made of texts, the calls
\* of prepare_effect per key, and the draws of this frame.
RenderRun ==
    /\ video.frames < MaxFrames
    /\ \E texts \in TextCommands, effects \in EffectCommands :
        LET txt == TextLoop(texts, render_sys.text_cache, video.text_textures, <<>>)
            eff == [key \in DOMAIN effects |->
                       EffectCommand(render_sys.str_effect_cache, key, effects[key])]
            old == DOMAIN render_sys.str_effect_cache
        IN  /\ render_sys' =
                   [text_cache |-> txt.text_cache,
                    str_effect_cache |->
                        [key \in old \cup DOMAIN effects |->
                            IF key \in DOMAIN effects THEN eff[key].entry
                            ELSE render_sys.str_effect_cache[key]]]
            /\ video' =
                   [frames |-> video.frames + 1,
                    text_2d_commands |-> texts,
                    effect_commands |-> effects,
                    text_textures |-> txt.textures,
                    prepare_effect |->
                        [key \in EffectKeys |->
                            video.prepare_effect[key]
                                + (IF key \in DOMAIN effects THEN eff[key].prepared ELSE 0)],
                    text_draws |-> txt.draws,
                    effect_draws |->
                        [key \in {k \in DOMAIN effects : eff[k].draws > 0} |->
                            [frame |-> eff[key].entry[1], draws |-> eff[key].draws]]]
    /\ UNCHANGED <<gndvars, sys_vars, status, manifest, updater>>

\* OpenGlRenderSystem::new: both caches are empty and no frame has run.
InitRender ==
    /\ NoLoad
    /\ sys_vars = [time |-> 0, area_attacks |-> <<>>]
    /\ status = "none"
    /\ manifest = "none"
    /\ updater = "none"
    /\ render_sys = [text_cache |-> <<>>, str_effect_cache |-> <<>>]
    /\ video = [frames |-> 0,
                text_2d_commands |-> <<>>,
                effect_commands |-> <<>>,
                text_textures |-> 0,
                prepare_effect |-> [key \in EffectKeys |-> 0],
                text_draws |-> <<>>,
                effect_draws |-> <<>>]

SpecRender == InitRender /\ [][RenderRun]_vars

----------------------------------------------------------------------------
(* What the claims speak of.                                               *)

\* load_textures has returned.
TexturesLoaded == pc \notin {"header", "textures"} /\ err # "Invalig Gnd header"

\* How the call ended, as its caller sees it.
Outcome ==
    IF pc = "done" THEN "Gnd" ELSE IF pc = "panic" THEN "panic" ELSE "running"

\* Nothing of a map exists.
NothingBuilt ==
    /\ texture_names = <<>> /\ texture_indices = <<>>
    /\ tiles = <<>> /\ surfaces = <<>>
    /\ mesh = <<>> /\ water = <<>>
    /\ tiles_color_image = NoImage /\ shadowmap_image = NoImage
    /\ lightmap_image = NoImage

CellX(c) == c % buf.width
CellY(c) == c \div buf.width

\* The cells whose loop body has run to its end.
Processed == 0..(cell - 1)

\* The loop over the cells has run its last iteration.
MeshLoopOver == pc = "mesh" /\ cell = buf.width * buf.height

\* A ground quad of the given kind was pushed for the cell at index c.
HasQuad(kind, c) ==
    \E k \in 1..Len(mesh) :
        mesh[k].kind = kind /\ mesh[k].x = CellX(c) /\ mesh[k].y = CellY(c)

\* The water quads pushed for the cell at index c, in the water mesh w.
WaterOf(w, c) == {k \in 1..Len(w) : w[k].x = CellX(c) /\ w[k].y = CellY(c)}

----------------------------------------------------------------------------
(* Claims.                                                                 *)

\* C1: once the texture table is loaded, texture_names is in first-seen
\* order: texture_names[texture_indices[i]] is the name read at raw slot i,
\* for every slot i.
C1_FirstSeenOrder ==
    TexturesLoaded =>
        \A i \in 1..Len(buf.names) :
            /\ i <= Len(texture_indices)
            /\ InBounds(texture_names, texture_indices[i])
            /\ At(texture_names, texture_indices[i]) = buf.names[i]

\* C2: every entry of texture_indices is below texture_names.len(),
\* texture_names has no duplicate, and two raw slots have the same index
\* exactly when they hold the same name.
C2_DenseUniqueIndices ==
    /\ \A i \in 1..Len(texture_indices) :
          /\ texture_indices[i] < Cardinality(DOMAIN texture_index_map)
          /\ \A j \in 1..Len(texture_indices) :
                texture_indices[i] = texture_indices[j] <=> buf.names[i] = buf.names[j]
    /\ TexturesLoaded =>
          /\ Len(texture_indices) = Len(buf.names)
          /\ Len(texture_names) = Cardinality(DOMAIN texture_index_map)
          /\ \A i \in 1..Len(texture_indices) : texture_indices[i] < Len(texture_names)
          /\ \A a, b \in 1..Len(texture_names) :
                a # b => texture_names[a] # texture_names[b]

\* C2 happens: a table with a repeated name and two distinct names is loaded.
C2_Witness ==
    /\ TexturesLoaded
    /\ Len(texture_names) >= 2
    /\ Len(texture_indices) > Len(texture_names)

C5_NoTopNoColor ==
    \A c \in 0..(Len(surfaces) - 1) :
        At(surfaces, c).tile_up = 0 - 1 =>
            /\ ~HasQuad("top", c)
            /\ tiles_color_image # NoImage =>
                  \A j \in 0..3 : At(tiles_color_image, 4 * c + j) = 0

\* C5 happens: a map is returned whose grid has a cell with tile_up = -1
\* and a cell with a coloured pixel.
C5_Witness ==
    /\ pc = "done"
    /\ \E c \in 0..(Len(surfaces) - 1) : At(surfaces, c).tile_up = 0 - 1
    /\ \E q \in 1..Len(tiles_color_image) : tiles_color_image[q] # 0

AllTopGrid ==
    /\ buf.header = "GRGN"
    /\ buf.width >= 1 /\ buf.height >= 1
    /\ buf.lm_count >= 1
    /\ \A k \in 1..Len(buf.tiles) :
          buf.tiles[k].slot < Len(buf.names) /\ buf.tiles[k].light < buf.lm_count
    /\ \A k \in 1..Len(buf.surfaces) :
          /\ buf.surfaces[k].tile_up \in 0..(Len(buf.tiles) - 1)
          /\ buf.surfaces[k].tile_front = 0 - 1
          /\ buf.surfaces[k].tile_right = 0 - 1
          /\ \A j \in 1..4 : Scale(buf.surfaces[k].height[j]) > water_level - water_height

\* C7: on such a file the load returns a map whose ground mesh is exactly
\* width*height top quads and whose water mesh is exactly width*height quads.
C7_AllTopGridLoads ==
    (AllTopGrid /\ Ended) =>
        /\ pc = "done"
        /\ Len(mesh) = buf.width * buf.height
        /\ \A k \in 1..Len(mesh) : mesh[k].kind = "top"
        /\ Len(water) = buf.width * buf.height

\* The face references the mesh loop uses of the cell at index c: tile_up,
\* tile_front off the last row, tile_right off the last column.
UsedRefs(c) ==
    LET s == buf.surfaces[c + 1]
    IN {s.tile_up}
       \cup (IF CellY(c) + 1 < buf.height THEN {s.tile_front} ELSE {})
       \cup (IF CellX(c) + 1 < buf.width THEN {s.tile_right} ELSE {})

AllRefs(c) ==
    LET s == buf.surfaces[c + 1] IN {s.tile_up, s.tile_front, s.tile_right}

C9_NoTrapOnEmptyLightmaps ==
    buf.lm_count = 0 => err # "remainder with a divisor of zero"

SurfacesLoaded ==
    pc \in {"normals", "mesh", "lightmap_image", "tiles_color_image",
            "shadowmap_image", "done"}

\* C11: for every u32 width and height the surface table is width*height
\* long, never that product reduced modulo 2^32, and the record of the cell
\* (x, y) of the file is the surface at index x + y*width.
C11_SurfacesMatchGrid ==
    SurfacesLoaded =>
        /\ ~MulU32(buf.width, buf.height).overflow
        /\ Len(surfaces) = buf.width * buf.height
        /\ \A y \in 0..(buf.height - 1) : \A x \in 0..(buf.width - 1) :
              At(surfaces, x + y * buf.width) = LoadSurface(At(buf.surfaces, x + y * buf.width))

\* load_tiles has returned.
TilesLoaded == SurfacesLoaded \/ pc = "surfaces"

\* A raw UV corner inside [0, 1].
InUnit(raw) == RLeq(RInt(0), raw) /\ RLeq(raw, RInt(1))

\* What C12 says of one remapped corner.
C12_Corner(raw, uv) ==
    InUnit(raw) =>
        /\ uv = Rat(256 * raw[1] + raw[2], 512 * raw[2])
        /\ RLeq(Rat(1, 512), uv) /\ RLeq(uv, Rat(257, 512))
        /\ RLeq(RInt(0), uv) /\ RLeq(uv, Rat(258, 512))

\* C12: with one texture the atlas is one cell of 512 by 512 pixels, and a
\* raw corner in [0, 1] is remapped to (256*raw + 1)/512, which is
\* (raw*(1 - 2/258) + 1/258) * 258/512 and lies in [1/512, 257/512],
\* inside [0, 258/512].
C12_SingleTextureAtlas ==
    (TilesLoaded /\ Len(texture_names) = 1) =>
        /\ AtlasCols(Len(texture_names)) = 1 /\ AtlasRows(Len(texture_names)) = 1
        /\ AtlasSize(AtlasCols(Len(texture_names))) = 512
        /\ AtlasSize(AtlasRows(Len(texture_names))) = 512
        /\ Len(tiles) = Len(buf.tiles)
        /\ \A k \in 1..Len(tiles) : \A c \in 1..4 :
              /\ C12_Corner(RawU(buf.tiles[k].uv)[c], tiles[k].u[c])
              /\ C12_Corner(RawV(buf.tiles[k].uv)[c], tiles[k].v[c])

\* C12 happens: a table of one texture, a tile whose corners are 0 and 1
\* and a tile with corners inside and outside [0, 1] are loaded.
C12_Witness ==
    /\ TilesLoaded /\ Len(texture_names) = 1
    /\ \E k, j \in 1..Len(tiles) :
          /\ \A c \in 1..4 : RawU(buf.tiles[k].uv)[c] \in {RInt(0), RInt(1)}
          /\ \E c, e \in 1..4 :
                /\ InUnit(RawU(buf.tiles[j].uv)[c])
                /\ ~InUnit(RawU(buf.tiles[j].uv)[e])
          /\ tiles[k].u[1] = Rat(1, 512) /\ tiles[k].u[2] = Rat(257, 512)

\* A well-formed file: the magic, a grid that fits a u32 with a record for
\* every cell, at least one lightmap entry, tiles that name a texture slot
\* and a lightmap entry of the tables, and faces that are absent (-1) or
\* name a tile of the table.
WellFormed ==
    /\ buf.header = "GRGN"
    /\ ~MulU32(buf.width, buf.height).overflow
    /\ Len(buf.surfaces) = buf.width * buf.height
    /\ buf.lm_count >= 1
    /\ \A k \in 1..Len(buf.tiles) :
          buf.tiles[k].slot < Len(buf.names) /\ buf.tiles[k].light < buf.lm_count
    /\ \A k \in 1..Len(buf.surfaces) :
          \A t \in {buf.surfaces[k].tile_up, buf.surfaces[k].tile_front,
                    buf.surfaces[k].tile_right} :
              t \in (0 - 1)..(Len(buf.tiles) - 1)

\* C13: on a well-formed file the load never aborts, however many ground
\* quads it emits, fewer than 100 or none included; when it has ended it
\* has returned a map.
C13_NeverAborts ==
    WellFormed => (pc # "panic" /\ (Ended => pc = "done"))

\* smooth_normal has returned.
NormalsLoaded ==
    pc \in {"mesh", "lightmap_image", "tiles_color_image", "shadowmap_image", "done"}

\* The flat normal a neighbour at (x, y) contributes by the claim: that of
\* the cell (x, y) inside the grid, the zero vector outside it.
NeighbourNormal(x, y) ==
    IF x < 0 \/ x >= buf.width \/ y < 0 \/ y >= buf.height THEN 0
    ELSE FlatNormal(surfaces, x + y * buf.width)

\* C14: the four corner sums of every cell are its own flat normal and the
\* flat normals of the three neighbours of the corner (up-left: west,
\* north-west, north; up-right: east, north-east, north; bottom-right:
\* east, south-east, south; bottom-left: west, south-west, south), a
\* neighbour outside the grid counting as the zero vector.
C14_CornerSumsOfNeighbours ==
    NormalsLoaded =>
        \A c \in 0..(Len(normals) - 1) :
            LET x == CellX(c)
                y == CellY(c)
                own == FlatNormal(surfaces, c)
                N(dx, dy) == NeighbourNormal(x + dx, y + dy)
            IN At(normals, c) =
                 << <<own, N(0 - 1, 0), N(0 - 1, 0 - 1), N(0, 0 - 1)>>,
                    <<own, N(1, 0), N(1, 0 - 1), N(0, 0 - 1)>>,
                    <<own, N(1, 0), N(1, 1), N(0, 1)>>,
                    <<own, N(0 - 1, 0), N(0 - 1, 1), N(0, 1)>> >>

\* The top quads of the ground mesh.
TopQuads == {k \in 1..Len(mesh) : mesh[k].kind = "top"}

\* The corner normal each of the six vertices of a top quad is to carry:
\* up-left, up-right, bottom-right twice, bottom-left, up-left.
CornerOfVertex == <<1, 2, 3, 3, 4, 1>>

\* C15: every vertex of a top quad carries the three components x, y, z of
\* the corner normal smooth_normal computed for its corner.
C15_FullCornerNormal ==
    \A k \in TopQuads :
        LET n == At(normals, mesh[k].x + mesh[k].y * buf.width)
            v == TopQuadVertices(mesh[k])
        IN \A j \in 1..6 :
              v[j].normal = <<Comp(n[CornerOfVertex[j]], 1),
                              Comp(n[CornerOfVertex[j]], 2),
                              Comp(n[CornerOfVertex[j]], 3)>>

\* C18: a top quad is six vertices, two triangles that share the diagonal
\* from (x, y) to (x+1, y+1): vertices 0 and 5 are the same, 2 and 3 are
\* the same, vertex 1 is the corner (x+1, y) and vertex 4 the corner
\* (x, y+1); positions are doubled in x and z, and the heights are
\* height[0], height[1], height[3], height[2] at (x, y), (x+1, y),
\* (x+1, y+1), (x, y+1).  Stated of the mesh as the loop leaves it, by its
\* end or by a panic: quads are only appended, so that mesh holds every
\* quad the loop has pushed.
C18_TopQuadLayout ==
    (MeshLoopOver \/ pc = "panic") =>
        \A k \in TopQuads :
            LET x == mesh[k].x
                y == mesh[k].y
                h == At(surfaces, x + y * buf.width).height
                v == TopQuadVertices(mesh[k])
            IN /\ Len(v) = 6
               /\ v[1] = v[6]
               /\ v[3] = v[4]
               /\ v[1].pos = <<2 * x, h[1], 2 * y>>
               /\ v[2].pos = <<2 * (x + 1), h[2], 2 * y>>
               /\ v[3].pos = <<2 * (x + 1), h[4], 2 * (y + 1)>>
               /\ v[5].pos = <<2 * x, h[3], 2 * (y + 1)>>

\* C18 happens: a top quad was pushed for a cell off the origin whose
\* height[3] alone is high, so that no two of its corners can be swapped.
C18_Witness ==
    MeshLoopOver /\ \E k \in TopQuads :
        LET h == At(surfaces, mesh[k].x + mesh[k].y * buf.width).height
        IN /\ mesh[k].x > 0 /\ mesh[k].y > 0
           /\ h[4] > h[3] /\ h[4] > h[2] /\ h[4] > h[1]

\* The cells the water quads of the water mesh were pushed for.
WaterCells == {water[k].x + water[k].y * buf.width : k \in 1..Len(water)}

\* A cell, of whose four heights none is above water_level - water_height.
Drowned(c) ==
    \A j \in 1..4 : At(surfaces, c).height[j] <= water_level - water_height

\* C16: a cell has a water quad only if one of its four heights is above
\* water_level - water_height, a cell whose heights are all at or below it
\* has none, and no cell has two water quads.
C16_WaterOnlyAboveThreshold ==
    /\ \A c \in WaterCells : ~Drowned(c)
    /\ \A c \in Processed : Drowned(c) => WaterOf(water, c) = {}
    /\ Cardinality(WaterCells) = Len(water)

\* C16 happens: the loop has pushed water quads and has passed a cell with
\* a top face whose heights are all at or below the threshold.
C16_Witness ==
    /\ Len(water) > 0
    /\ \E c \in Processed :
          HasTop(At(surfaces, c)) /\ Drowned(c) /\ WaterOf(water, c) = {}

\* The place of a face in the body of the loop.
FaceRank(kind) == IF kind = "top" THEN 0 ELSE IF kind = "front" THEN 1 ELSE 2

\* The place of a ground quad in the row-major order of the claim: its
\* cell index x + y*width, then its face.
QuadRank(q) == 3 * (q.x + q.y * buf.width) + FaceRank(q.kind)

\* C17: the ground mesh is in row-major cell order, and within a cell the
\* top face is before the front face, which is before the right face; the
\* water mesh is in the same cell order.  Stated of every two neighbours
\* in the meshes, from which it follows of every two quads.
C17_RowMajorOrder ==
    /\ \A k \in 1..(Len(mesh) - 1) : QuadRank(mesh[k]) < QuadRank(mesh[k + 1])
    /\ \A k \in 1..(Len(water) - 1) :
          water[k].x + water[k].y * buf.width
              < water[k + 1].x + water[k + 1].y * buf.width

\* C17 happens: past the first cells of a grid with more than one row, a
\* cell has pushed its top, front and right quads, and the water mesh
\* holds quads of two rows.
C17_Witness ==
    /\ \E k \in 4..(Len(mesh) - 2) :
          /\ mesh[k].kind = "top" /\ mesh[k + 1].kind = "front"
          /\ mesh[k + 2].kind = "right"
          /\ mesh[k + 2].x = mesh[k].x /\ mesh[k + 2].y = mesh[k].y
    /\ \E k \in 1..(Len(water) - 1) : water[k].y < water[k + 1].y

\* The lightmap entries the quads of the mesh sample, each with the grid
\* cell lightmap_atlas took for it.
LightWindows ==
    {<<At(tiles, mesh[k].tile).light, mesh[k].light>> : k \in 1..Len(mesh)}

\* The grid and the pixel size of the lightmap atlas by the claims:
\* cols = round(sqrt(count)), rows = ceil(sqrt(count)), and the least
\* powers of two that hold 8*cols and 8*rows pixels.
LmCols == SqrtRound(lightmaps.count)
LmRows == SqrtCeil(lightmaps.count)
LmWidth == Pow2Ceil(8 * LmCols)
LmHeight == Pow2Ceil(8 * LmRows)

\* Byte c of the pixel (px, py) of the lightmap atlas image.
LmPixel(px, py, c) == At(lightmap_image, (px + py * LmWidth) * 4 + c)

\* C19: for an entry i below the count, with col = i mod cols and row =
\* i div cols, lightmap_atlas returns u1 = (8*col+1)/atlas_width, u2 =
\* (8*col+7)/atlas_width, v1 = (8*row+1)/atlas_height, v2 = (8*row+7)/
\* atlas_height, and the atlas image, of that width and height, holds the
\* texels of entry i at the pixels x in [8*col, 8*col+7], y in [8*row,
\* 8*row+7].  Stated of the mesh as the loop leaves it and of the image
\* as create_lightmap_image returns it.
C19_WindowInsideBlock ==
    (MeshLoopOver \/ pc = "tiles_color_image") => \A p \in LightWindows :
        LET i == p[1]
            w == QuadLightmapUV([light |-> p[2]])
            col == i % LmCols
            row == i \div LmCols
        IN i < lightmaps.count =>
             /\ w.u1 = Rat(8 * col + 1, LmWidth)
             /\ w.u2 = Rat(8 * col + 7, LmWidth)
             /\ w.v1 = Rat(8 * row + 1, LmHeight)
             /\ w.v2 = Rat(8 * row + 7, LmHeight)
             /\ lightmap_image # NoImage =>
                   /\ Len(lightmap_image) = 4 * LmWidth * LmHeight
                   /\ \A tx \in 0..7 : \A ty \in 0..7 :
                         LmPixel(8 * col + tx, 8 * row + ty, 3) =
                            LightmapByte(i * 4 * lightmaps.per_cell + tx + ty * 8)

\* C19 happens: a map is returned whose quads sample two lightmap entries,
\* one of them off the first block of the atlas.
C19_Witness ==
    /\ pc = "tiles_color_image"
    /\ lightmap_image # NoImage
    /\ \E p, q \in LightWindows :
          p[1] # q[1] /\ p[1] < lightmaps.count /\ (p[2].col > 0 \/ p[2].row > 0)

\* C20: in the lightmap atlas image every texel of the 8x8 block of every
\* entry has R, G, B the bytes of the entry's RGB layer with the low four
\* bits cleared and A the byte of its alpha layer; no two entries have the
\* same block, a pixel of no block is zero, and the low four bits of
\* every R, G, B byte of the image are zero.  Stated of the image as
\* create_lightmap_image returns it.
C20_LightmapImageBlocks ==
    pc = "tiles_color_image" =>
        LET per_cell == lightmaps.per_cell
            Entries == 0..(lightmaps.count - 1)
            Col(i) == i % LmCols
            Row(i) == i \div LmCols
        IN /\ Len(lightmap_image) = 4 * LmWidth * LmHeight
           /\ \A i \in Entries : \A tx \in 0..7 : \A ty \in 0..7 :
                 /\ 8 * Col(i) + tx < LmWidth /\ 8 * Row(i) + ty < LmHeight
                 /\ \A c \in 0..2 :
                       LmPixel(8 * Col(i) + tx, 8 * Row(i) + ty, c) =
                          16 * (LightmapByte(i * 4 * per_cell + per_cell
                                             + (tx + ty * 8) * 3 + c) \div 16)
                 /\ LmPixel(8 * Col(i) + tx, 8 * Row(i) + ty, 3) =
                       LightmapByte(i * 4 * per_cell + tx + ty * 8)
           /\ \A i, j \in Entries :
                 i # j => (Col(i) # Col(j) \/ Row(i) # Row(j))
           /\ \A px \in 0..(LmWidth - 1) : \A py \in 0..(LmHeight - 1) :
                 (\A i \in Entries : px \div 8 # Col(i) \/ py \div 8 # Row(i)) =>
                     \A c \in 0..3 : LmPixel(px, py, c) = 0
           /\ \A q \in 1..Len(lightmap_image) :
                 (q - 1) % 4 # 3 => lightmap_image[q] % 16 = 0

\* C20 happens: an image of three entries is built: it has a block of no
\* entry, and R, G, B bytes that are not zero.
C20_Witness ==
    /\ pc = "tiles_color_image"
    /\ lightmaps.count = 3
    /\ LmCols * LmRows > lightmaps.count
    /\ \E q \in 1..Len(lightmap_image) : (q - 1) % 4 # 3 /\ lightmap_image[q] # 0

\* Byte (i, j) of the 8x8 block of cell (x, y) in the shadow map image,
\* whose rows are 8 * width bytes long.
ShadowPixel(x, y, i, j) ==
    At(shadowmap_image, (x * 8 + i) + (y * 8 + j) * (buf.width * 8))

\* C21: the shadow map image has 8*width by 8*height bytes; the 64 bytes
\* of the block of a cell with a top tile are bytes of the alpha layer (the
\* first per_cell bytes) of the lightmap entry the tile's light index
\* selects, texel i + 8*j for byte (i, j); the 64 bytes of the block of a
\* cell without a top tile are 255. Lightmap headers of several per_cell
\* values are loaded.
C21_ShadowFromAlphaLayer ==
    shadowmap_image # NoImage =>
        /\ Len(shadowmap_image) = (8 * buf.width) * (8 * buf.height)
        /\ \A x \in 0..(buf.width - 1) : \A y \in 0..(buf.height - 1) :
              LET s == At(surfaces, y * buf.width + x)
                  entry == At(tiles, s.tile_up).light
                  alpha == entry * 4 * lightmaps.per_cell
              IN \A i \in 0..7 : \A j \in 0..7 :
                    IF s.tile_up > 0 - 1
                    THEN /\ i + 8 * j < lightmaps.per_cell
                         /\ entry < lightmaps.count
                         /\ ShadowPixel(x, y, i, j) = LightmapByte(alpha + i + 8 * j)
                    ELSE ShadowPixel(x, y, i, j) = 255

\* C21 happens: a shadow map is built from a lightmap table whose per_cell
\* is not 64, for a grid whose top tiles select an entry other than 0.
C21_Witness ==
    /\ shadowmap_image # NoImage
    /\ lightmaps.per_cell # 64
    /\ \E c \in 0..(Len(surfaces) - 1) :
          /\ At(surfaces, c).tile_up > 0 - 1
          /\ At(tiles, At(surfaces, c).tile_up).light > 0

\* The four bytes of the pixel of cell (x, y) in the tile colour image.
ColorPixel(x, y) ==
    [k \in 1..4 |-> At(tiles_color_image, 4 * (y * buf.width + x) + (k - 1))]

\* C22: the tile colour image has width*height RGBA pixels; the four bytes
\* at offset 4*(y*width + x) are the stored colour of tiles[tile_up] for a
\* cell (x, y) with a top tile, whatever the other cells hold, and are
\* left zero for a cell without one.
C22_PixelPerCell ==
    tiles_color_image # NoImage =>
        /\ Len(tiles_color_image) = 4 * buf.width * buf.height
        /\ \A x \in 0..(buf.width - 1) : \A y \in 0..(buf.height - 1) :
              LET s == At(surfaces, y * buf.width + x)
              IN ColorPixel(x, y) =
                    IF s.tile_up > 0 - 1 THEN At(tiles, s.tile_up).color
                    ELSE <<0, 0, 0, 0>>

\* C22 happens: an image is built for a grid with neighbouring cells whose
\* top tiles differ in colour, and their pixels differ.
C22_Witness ==
    /\ tiles_color_image # NoImage
    /\ buf.width > 1 /\ buf.height > 1
    /\ \E x \in 0..(buf.width - 2) : \E y \in 0..(buf.height - 1) :
          LET s == At(surfaces, y * buf.width + x)
              t == At(surfaces, y * buf.width + x + 1)
          IN /\ s.tile_up > 0 - 1 /\ t.tile_up > 0 - 1
             /\ At(tiles, s.tile_up).color # At(tiles, t.tile_up).color
             /\ ColorPixel(x, y) # ColorPixel(x + 1, y)

\* The texture coordinate the claim gives the edge at grid line a + d of
\* a water quad of cell coordinate a: d = 0 is the near edge, 1 the far.
TiledCoord(a, d) ==
    IF d = 0 THEN Rat(a % 5, 5)
    ELSE IF (a + 1) % 5 = 0 THEN RInt(1) ELSE Rat((a + 1) % 5, 5)

\* C23: every vertex of every water quad of cell (x, y) lies on a near or
\* far edge and has the texture coordinate (x mod 5)/5 (resp. y) on the
\* near edge and ((x+1) mod 5)/5, with 0 replaced by 1, on the far edge;
\* every coordinate lies in [0, 1], and on each axis the far coordinate is
\* the near one plus exactly 1/5.  Stated of the water mesh as the loop
\* leaves it.
C23_WaterTexcoords ==
    MeshLoopOver => \A k \in 1..Len(water) :
        LET q == water[k]
            vs == WaterQuadVertices(q)
        IN \A m \in 1..6 :
              LET v == vs[m]
                  dx == (v.pos[1] - 2 * q.x) \div 2
                  dy == (v.pos[3] - 2 * q.y) \div 2
              IN /\ dx \in {0, 1} /\ dy \in {0, 1}
                 /\ v.pos[1] = 2 * (q.x + dx) /\ v.pos[3] = 2 * (q.y + dy)
                 /\ v.texcoord = <<TiledCoord(q.x, dx), TiledCoord(q.y, dy)>>
                 /\ \A a \in 1..2 :
                       /\ RLeq(RInt(0), v.texcoord[a])
                       /\ RLeq(v.texcoord[a], RInt(1))
                 /\ \A n \in 1..6 :
                       /\ vs[n].pos[1] > v.pos[1] =>
                             RSub(vs[n].texcoord[1], v.texcoord[1]) = Rat(1, 5)
                       /\ vs[n].pos[3] > v.pos[3] =>
                             RSub(vs[n].texcoord[2], v.texcoord[2]) = Rat(1, 5)

\* C23 happens: the water mesh has a quad of a cell whose far edge is on
\* a tile boundary (x mod 5 = 4) and a quad of a cell whose near edge is
\* (x mod 5 = 0, x > 0).
C23_Witness ==
    /\ MeshLoopOver
    /\ \E k \in 1..Len(water) : water[k].x % 5 = 4
    /\ \E k \in 1..Len(water) : water[k].x = 5
    /\ \E k \in 1..Len(water) : water[k].y % 5 = 4
    /\ \E k \in 1..Len(water) : water[k].y = 5

\* C24: each of the six vertices of the top quad of cell (x, y) carries
\* the tile UV of the centre of the cell, ((x + 0.5)/width,
\* (y + 0.5)/height), which lies strictly between 0 and 1; the vertices of
\* front and right quads carry (0, 0).
C24_TileUVIsCellCentre ==
    \A k \in 1..Len(mesh) :
        LET q == mesh[k]
            uv == QuadTilecoords(q)
        IN \A m \in 1..6 :
              IF q.kind = "top"
              THEN /\ uv[m] = <<Rat(2 * q.x + 1, 2 * buf.width),
                                Rat(2 * q.y + 1, 2 * buf.height)>>
                   /\ \A a \in 1..2 :
                         RLess(RInt(0), uv[m][a]) /\ RLess(uv[m][a], RInt(1))
              ELSE uv[m] = <<RInt(0), RInt(0)>>

\* A grid of cols x rows blocks in an image of width x height pixels has
\* room for n entries placed at Block[i]: every entry has a row, every
\* block lies inside the image, no two entries share a block.
HasCapacity(n, cols, rows, block, width, height, Block) ==
    /\ cols * rows >= n
    /\ width >= cols * block /\ height >= rows * block
    /\ \A i \in 0..(n - 1) :
          /\ i \div cols < rows
          /\ Block[i] = [x |-> (i % cols) * block, y |-> (i \div cols) * block]
          /\ Block[i].x + block <= width /\ Block[i].y + block <= height
    /\ \A i, j \in 0..(n - 1) : i # j => Block[i] # Block[j]

\* C25: with cols = round(sqrt(n)) and rows = ceil(sqrt(n)), the n >= 1
\* entries of the lightmap table (blocks of 8 pixels) and the n >= 1
\* textures of the map (blocks of 258 pixels) all have a cell (i mod cols,
\* i div cols) with i div cols < rows, cols*rows >= n, no two of them the
\* same cell, and the power-of-two image holds cols and rows blocks.
\* Stated where both tables have been read and where the map is returned.
C25_SizingRuleHasCapacity ==
    /\ (pc \in {"tiles", "done"} /\ lightmaps.count >= 1) =>
          LET n == lightmaps.count
              LmBlock == [i \in 0..(n - 1) |-> LightmapBlock(i, n)]
          IN HasCapacity(n, SqrtRound(n), SqrtCeil(n), LightmapTile,
                         Pow2Ceil(SqrtRound(n) * LightmapTile),
                         Pow2Ceil(SqrtCeil(n) * LightmapTile), LmBlock)
    /\ (pc \in {"tiles", "done"} /\ Len(texture_names) >= 1) =>
          LET n == Len(texture_names)
              TexBlock == [i \in 0..(n - 1) |-> TextureBlock(i, n)]
          IN /\ HasCapacity(n, AtlasCols(n), AtlasRows(n), AtlasTile,
                            TextureAtlasSize(n).width, TextureAtlasSize(n).height,
                            TexBlock)
             /\ AtlasSize(AtlasCols(n)) = TextureAtlasSize(n).width
             /\ AtlasSize(AtlasRows(n)) = TextureAtlasSize(n).height

\* C25 happens: the lightmap image of twelve entries is built, three
\* columns by four rows, for a map of two textures, one column by two rows.
C25_Witness ==
    /\ lightmap_image # NoImage
    /\ lightmaps.count = 12
    /\ SqrtRound(lightmaps.count) < SqrtCeil(lightmaps.count)
    /\ Len(texture_names) = 2
    /\ AtlasCols(2) < AtlasRows(2)

\* The area attacks of the kind typ pushed so far.
DashAttacksOf(typ) ==
    {k \in 1..Len(sys_vars.area_attacks) : sys_vars.area_attacks[k].typ = typ}

\* The area attacks pushed by the update with the number call.
DashAttacksIn(call) ==
    {k \in 1..Len(sys_vars.area_attacks) : sys_vars.area_attacks[k].call = call}

\* C26: over the updates of one blade dash with non-decreasing time, the
\* forward attack (first_damage) is pushed at most once, the backward
\* attack (second_damage) at most once, no update pushes more than one
\* attack, the backward attack never comes before the forward one, and an
\* update that returns RemoveIt pushes none.
C26_DashAttacks ==
    /\ Cardinality(DashAttacksOf("first_damage")) <= 1
    /\ Cardinality(DashAttacksOf("second_damage")) <= 1
    /\ \A call \in 1..status.calls : Cardinality(DashAttacksIn(call)) <= 1
    /\ \A k \in DashAttacksOf("second_damage") :
           \E j \in DashAttacksOf("first_damage") : j < k
    /\ status.result = "RemoveIt" => DashAttacksIn(status.calls) = {}

\* Both attacks were pushed, in two updates, and a later update returned
\* RemoveIt.
C26_Witness ==
    /\ Len(sys_vars.area_attacks) = 2
    /\ sys_vars.area_attacks[1].call < sys_vars.area_attacks[2].call
    /\ status.result = "RemoveIt"
    /\ status.collidable

\* The multiple of dir_vector * 2.2 the strike number k = 0..5 is to be at.
StrikeMultiple(k) == <<0, 1, 2, 2, 1, 0>>[k + 1]

\* The place the strike number k is to be at.
StrikePlace(k) ==
    VAdd(manifest.pos,
         VScale(manifest.dir_vector, RMul(Rat(22, 10), RInt(StrikeMultiple(k)))))

\* This step inserts a strike effect.
Strikes ==
    \/ manifest'.action_count # manifest.action_count
    \/ updater'.effect # <<>> /\ updater'.effect # updater.effect

\* The 12 seconds of the manifestation are over in the frame this step ends in.
LifeOver == sys_vars'.time >= manifest.created_at + LightningLife

\* What C27 says of one update.
C27_Step ==
    /\ Strikes =>
        /\ manifest.action_count <= 5
        /\ manifest'.action_count = manifest.action_count + 1
        /\ updater'.effect # <<>>
        /\ updater'.effect[1].pos = StrikePlace(manifest.action_count)
        /\ updater.effect # <<>> =>
               sys_vars'.time - (updater.effect[1].start_time + 5) >= ActionEvery
        /\ manifest.action_count >= 1 =>
               sys_vars'.time - (manifest.next_action_at - ActionEvery) >= ActionEvery
        /\ ~LifeOver
    /\ LifeOver => ~updater'.manifestation /\ updater'.effect = <<>>

\* C27: over the updates of one lightning manifestation with non-decreasing
\* time, action_count starts at 0, grows by exactly 1 with each strike and
\* never exceeds 6; strike k = 0..5 is at pos + dir_vector * 2.2 * m with
\* m = 0, 1, 2, 2, 1, 0; consecutive strikes are at least 1.5 seconds
\* apart; and once created_at + 12 seconds has passed no strike is inserted
\* and the manifestation and its effect are removed.
C27_Strikes ==
    /\ manifest.action_count = 0
    /\ [](manifest.action_count \in 0..6)
    /\ [][C27_Step]_vars

\* All six strikes were inserted and the manifestation was removed.
C27_Witness ==
    /\ manifest.action_count = 6
    /\ ~updater.manifestation
    /\ updater.effect = <<>>

\* What C28 says of the area attacks pushed so far.
C28_Pushed ==
    LET attacks == sys_vars.area_attacks
    IN  /\ Len(attacks) <= 6
        /\ \A k \in 1..Len(attacks) :
            /\ attacks[k].strikes >= 1
            /\ attacks[k].area_isom = StrikePlace(attacks[k].strikes - 1)
            /\ \A j \in 1..(k - 1) : attacks[j].strikes < attacks[k].strikes

\* What C28 says of one update.
C28_Step ==
    sys_vars'.area_attacks # sys_vars.area_attacks =>
        /\ Len(sys_vars'.area_attacks) = Len(sys_vars.area_attacks) + 1
        /\ manifest'.action_count >= 1
        /\ sys_vars'.area_attacks[Len(sys_vars'.area_attacks)].area_isom
               = manifest'.last_skill_pos
        /\ updater'.effect # <<>> =>
               manifest'.last_skill_pos = updater'.effect[1].pos
        /\ ~LifeOver

\* C28: over the updates of one lightning manifestation with non-decreasing
\* time, no area attack is pushed before the first strike, every area
\* attack is centred on the place of the most recent strike
\* (last_skill_pos), at most one is pushed between two consecutive strikes
\* (so at most 6 in all), and none is pushed once created_at + 12 seconds
\* has passed.
C28_AreaAttacks == [](C28_Pushed) /\ [][C28_Step]_vars

\* Every strike was followed by its area attack.
C28_Witness ==
    /\ Len(sys_vars.area_attacks) = 6
    /\ sys_vars.area_attacks[6].strikes = 6

\* The texts text_cache holds: every text a command has carried so far.
TextsSeen == DOMAIN render_sys.text_cache

\* C29: over the frames of OpenGlRenderSystem::run, a text texture is made
\* only on a miss of text_cache: the number of Video::create_text_texture
\* calls equals the number of distinct command texts seen, and every text
\* is drawn with its cached texture.
C29_TextureOnlyOnMiss ==
    /\ video.text_textures = Cardinality(TextsSeen)
    /\ \A k \in 1..Len(video.text_draws) :
           video.text_draws[k].texture = render_sys.text_cache[video.text_draws[k].text]

\* What C30 says of the state after a frame.
C30_Cached ==
    /\ \A key \in EffectKeys : video.prepare_effect[key] <= 1
    /\ \A key \in DOMAIN video.effect_draws :
        /\ key \in DOMAIN render_sys.str_effect_cache
        /\ render_sys.str_effect_cache[key] # <<>>
        /\ video.effect_draws[key].frame = render_sys.str_effect_cache[key][1]

\* What C30 says of one frame.
C30_Frame ==
    LET cache == render_sys.str_effect_cache
    IN  /\ \A key \in DOMAIN video'.effect_commands :
            IF key \notin DOMAIN cache
            THEN /\ key \in DOMAIN render_sys'.str_effect_cache
                 /\ video'.prepare_effect[key] = video.prepare_effect[key] + 1
                 /\ key \notin DOMAIN video'.effect_draws
            ELSE /\ video'.prepare_effect[key] = video.prepare_effect[key]
                 /\ cache[key] # <<>> =>
                     /\ key \in DOMAIN video'.effect_draws
                     /\ video'.effect_draws[key] =
                            [frame |-> cache[key][1],
                             draws |-> video'.effect_commands[key]]
        /\ \A key \in DOMAIN cache :
            /\ key \in DOMAIN render_sys'.str_effect_cache
            /\ render_sys'.str_effect_cache[key] = cache[key]

\* C30: over the frames of OpenGlRenderSystem::run, prepare_effect is
\* called at most once per effect-frame key: the first frame that carries
\* a key only computes and stores its entry without drawing it, every
\* later frame reuses the stored entry, a key whose entry is None is never
\* drawn, and no entry is ever removed or replaced.
C30_PreparedOncePerKey == [](C30_Cached) /\ [][C30_Frame]_vars

\* A later frame carries a key with a stored frame, which it draws, and a
\* key with a stored None, which it does not.
C30_Witness ==
    /\ video.frames >= 2
    /\ \E key \in DOMAIN video.effect_draws :
        /\ video.prepare_effect[key] = 1
        /\ video.effect_draws[key].draws = 2
    /\ \E key \in DOMAIN video.effect_commands :
        /\ key \in DOMAIN render_sys.str_effect_cache
        /\ render_sys.str_effect_cache[key] = <<>>
        /\ video.prepare_effect[key] = 1

====
